---- MODULE Spec2Model ----
(***************************************************************************)
(* Model of the command-intent classifier and the safe command-execution   *)
(* pipeline of grok_agent_simple_v2.py (class GrokAgent).                   *)
(*                                                                         *)
(* Python strings are modelled as sequences of one-character strings, so   *)
(* that substring tests, prefix tests, split, strip and lower-casing are   *)
(* computed as the interpreter computes them.  Optional values are         *)
(* records [none, val].                                                    *)
(***************************************************************************)
EXTENDS Integers, Sequences, FiniteSets, TLC

(***************************************************************************)
(* Bounds of the model.                                                    *)
(***************************************************************************)
\* number of text fragments an input line of the classifier is made of
MaxChunks == 2
\* largest retry_attempts value a configuration file provides
MaxAttempts == 2
\* number of execute_command calls made in one run of the executor
MaxExec == 2
\* number of execute_command calls in a long session
MaxAppends == 102
\* number of input lines read by the interactive loop
MaxLines == 2

(***************************************************************************)
(* Python string primitives.                                               *)
(***************************************************************************)
UPPERCASE == <<"A","B","C","D","E","F","G","H","I","J","K","L","M",
               "N","O","P","Q","R","S","T","U","V","W","X","Y","Z">>
LOWERCASE == <<"a","b","c","d","e","f","g","h","i","j","k","l","m",
               "n","o","p","q","r","s","t","u","v","w","x","y","z">>

\* str.lower() on one character
LowerChar(c) ==
    IF \E i \in 1..Len(UPPERCASE) : UPPERCASE[i] = c
    THEN LOWERCASE[CHOOSE i \in 1..Len(UPPERCASE) : UPPERCASE[i] = c]
    ELSE c

\* str.lower()
Lower(s) == [i \in 1..Len(s) |-> LowerChar(s[i])]

\* str.isspace() on one character
IsSpace(c) == c \in {" ", "\t", "\n", "\r"}

\* str.strip()
Strip(s) ==
    LET nonSpace == {i \in 1..Len(s) : ~IsSpace(s[i])}
    IN  IF nonSpace = {} THEN <<>>
        ELSE LET lo == CHOOSE i \in nonSpace : \A j \in nonSpace : i <= j
                 hi == CHOOSE i \in nonSpace : \A j \in nonSpace : i >= j
             IN  SubSeq(s, lo, hi)

\* p occurs in s at position i
MatchAt(s, p, i) == \A j \in 1..Len(p) : s[i + j - 1] = p[j]

\* str.find(p) + 1: position of the first occurrence of p in s, 0 if none
Find(s, p) ==
    LET occ == {i \in 1..(Len(s) - Len(p) + 1) : MatchAt(s, p, i)}
    IN  IF occ = {} THEN 0 ELSE CHOOSE i \in occ : \A j \in occ : i <= j

\* the Python test  p in s
Contains(s, p) == \E i \in 1..(Len(s) - Len(p) + 1) : MatchAt(s, p, i)

\* str.startswith(p)
StartsWith(s, p) == Len(p) <= Len(s) /\ MatchAt(s, p, 1)

\* s[n:]
Tail_from(s, n) == SubSeq(s, n + 1, Len(s))

\* s.split(p)[-1]: the text after the last occurrence found by the
\* left-to-right scan of split
RECURSIVE SplitLast(_, _)
SplitLast(s, p) ==
    LET i == Find(s, p)
    IN  IF i = 0 THEN s ELSE SplitLast(Tail_from(s, i + Len(p) - 1), p)

\* s.replace(p, ''): every occurrence found left to right is removed
RECURSIVE Replace(_, _)
Replace(s, p) ==
    LET i == Find(s, p)
    IN  IF i = 0 THEN s
        ELSE SubSeq(s, 1, i - 1) \o Replace(Tail_from(s, i + Len(p) - 1), p)

\* s.split(): the whitespace-separated words of s, in order
RECURSIVE SplitWords(_)
SplitWords(s) ==
    LET t == Strip(s)
    IN  IF t = <<>> THEN <<>>
        ELSE LET sp == {i \in 1..Len(t) : IsSpace(t[i])}
             IN  IF sp = {} THEN <<t>>
                 ELSE LET k == CHOOSE i \in sp : \A j \in sp : i <= j
                      IN  <<SubSeq(t, 1, k - 1)>> \o SplitWords(Tail_from(t, k))

\* set(seq)
ToSet(seq) == {seq[i] : i \in 1..Len(seq)}

\* concatenation of a sequence of strings
RECURSIVE Concat(_)
Concat(ss) == IF ss = <<>> THEN <<>> ELSE Head(ss) \o Concat(Tail(ss))

\* Optional[...] values
None == [none |-> TRUE, val |-> <<>>]
Some(v) == [none |-> FALSE, val |-> v]

(***************************************************************************)
(* Static tables: ALLOWED_COMMANDS and GrokAgent.command_patterns.         *)
(***************************************************************************)
patterns_ipconfig ==
    << <<"w","h","a","t"," ","i","s"," ","m","y"," ","i","p">>,
       <<"s","h","o","w"," ","m","y"," ","i","p">>,
       <<"d","i","s","p","l","a","y"," ","i","p">>,
       <<"n","e","t","w","o","r","k"," ","c","o","n","f","i","g">>,
       <<"s","h","o","w"," ","n","e","t","w","o","r","k">>,
       <<"i","p"," ","a","d","d","r","e","s","s">>,
       <<"n","e","t","w","o","r","k"," ","a","d","d","r","e","s","s">>,
       <<"m","y"," ","n","e","t","w","o","r","k">>,
       <<"n","e","t","w","o","r","k"," ","s","e","t","t","i","n","g","s">>,
       <<"c","o","n","n","e","c","t","i","o","n"," ","i","n","f","o">>,
       <<"i","n","t","e","r","n","e","t"," ","s","e","t","t","i","n","g","s">>,
       <<"w","i","f","i"," ","i","n","f","o">>,
       <<"e","t","h","e","r","n","e","t"," ","i","n","f","o">>,
       <<"n","e","t","w","o","r","k"," ","a","d","a","p","t","e","r">> >>

patterns_systeminfo ==
    << <<"s","y","s","t","e","m"," ","i","n","f","o">>,
       <<"c","o","m","p","u","t","e","r"," ","i","n","f","o">>,
       <<"p","c"," ","i","n","f","o">>,
       <<"h","a","r","d","w","a","r","e"," ","i","n","f","o">>,
       <<"s","h","o","w"," ","s","y","s","t","e","m">>,
       <<"a","b","o","u","t"," ","m","y"," ","c","o","m","p","u","t","e","r">>,
       <<"s","y","s","t","e","m"," ","d","e","t","a","i","l","s">>,
       <<"c","o","m","p","u","t","e","r"," ","s","p","e","c","s">>,
       <<"h","a","r","d","w","a","r","e"," ","s","p","e","c","s">>,
       <<"s","y","s","t","e","m"," ","c","o","n","f","i","g","u","r","a","t","i","o","n">>,
       <<"c","o","m","p","u","t","e","r"," ","d","e","t","a","i","l","s">>,
       <<"p","c"," ","d","e","t","a","i","l","s">>,
       <<"s","y","s","t","e","m"," ","h","a","r","d","w","a","r","e">> >>

patterns_whoami ==
    << <<"w","h","o"," ","a","m"," ","i">>,
       <<"c","u","r","r","e","n","t"," ","u","s","e","r">>,
       <<"m","y"," ","u","s","e","r","n","a","m","e">>,
       <<"l","o","g","g","e","d"," ","i","n"," ","a","s">>,
       <<"s","h","o","w"," ","u","s","e","r">>,
       <<"u","s","e","r"," ","n","a","m","e">>,
       <<"m","y"," ","a","c","c","o","u","n","t">>,
       <<"c","u","r","r","e","n","t"," ","a","c","c","o","u","n","t">>,
       <<"u","s","e","r"," ","a","c","c","o","u","n","t">>,
       <<"l","o","g","i","n"," ","i","n","f","o">>,
       <<"a","c","c","o","u","n","t"," ","n","a","m","e">> >>

patterns_hostname ==
    << <<"c","o","m","p","u","t","e","r"," ","n","a","m","e">>,
       <<"m","a","c","h","i","n","e"," ","n","a","m","e">>,
       <<"h","o","s","t"," ","n","a","m","e">>,
       <<"p","c"," ","n","a","m","e">>,
       <<"w","h","a","t"," ","i","s"," ","m","y"," ","c","o","m","p","u","t","e","r"," ","c","a","l","l","e","d">>,
       <<"s","y","s","t","e","m"," ","n","a","m","e">>,
       <<"c","o","m","p","u","t","e","r"," ","i","d">>,
       <<"m","a","c","h","i","n","e"," ","i","d">>,
       <<"p","c"," ","i","d","e","n","t","i","f","i","e","r">>,
       <<"c","o","m","p","u","t","e","r"," ","i","d","e","n","t","i","f","i","e","r">> >>

patterns_dir ==
    << <<"s","h","o","w"," ","f","i","l","e","s">>,
       <<"l","i","s","t"," ","f","i","l","e","s">>,
       <<"s","h","o","w"," ","d","i","r","e","c","t","o","r","y">>,
       <<"l","i","s","t"," ","d","i","r","e","c","t","o","r","y">>,
       <<"w","h","a","t"," ","f","i","l","e","s"," ","a","r","e"," ","h","e","r","e">>,
       <<"s","h","o","w"," ","f","o","l","d","e","r"," ","c","o","n","t","e","n","t","s">>,
       <<"f","o","l","d","e","r"," ","c","o","n","t","e","n","t","s">>,
       <<"d","i","r","e","c","t","o","r","y"," ","c","o","n","t","e","n","t","s">>,
       <<"l","i","s","t"," ","f","o","l","d","e","r">>,
       <<"s","h","o","w"," ","f","o","l","d","e","r">>,
       <<"f","i","l","e","s"," ","h","e","r","e">>,
       <<"w","h","a","t"," ","i","s"," ","i","n"," ","t","h","i","s"," ","f","o","l","d","e","r">>,
       <<"f","o","l","d","e","r"," ","f","i","l","e","s">>,
       <<"d","i","r","e","c","t","o","r","y"," ","f","i","l","e","s">> >>

patterns_ping ==
    << <<"t","e","s","t"," ","c","o","n","n","e","c","t","i","o","n">>,
       <<"c","h","e","c","k"," ","c","o","n","n","e","c","t","i","o","n">>,
       <<"p","i","n","g"," ","t","e","s","t">>,
       <<"c","a","n"," ","i"," ","r","e","a","c","h">>,
       <<"n","e","t","w","o","r","k"," ","t","e","s","t">>,
       <<"t","e","s","t"," ","n","e","t","w","o","r","k">>,
       <<"c","h","e","c","k"," ","n","e","t","w","o","r","k">>,
       <<"t","e","s","t"," ","i","n","t","e","r","n","e","t">>,
       <<"c","h","e","c","k"," ","i","n","t","e","r","n","e","t">>,
       <<"t","e","s","t"," ","w","e","b","s","i","t","e">>,
       <<"c","h","e","c","k"," ","w","e","b","s","i","t","e">>,
       <<"t","e","s","t"," ","s","e","r","v","e","r">>,
       <<"c","h","e","c","k"," ","s","e","r","v","e","r">>,
       <<"t","e","s","t"," ","i","f"," ","o","n","l","i","n","e">>,
       <<"c","h","e","c","k"," ","i","f"," ","o","n","l","i","n","e">>,
       <<"t","e","s","t"," ","c","o","n","n","e","c","t","i","v","i","t","y">> >>

patterns_tracert ==
    << <<"t","r","a","c","e"," ","r","o","u","t","e">>,
       <<"s","h","o","w"," ","r","o","u","t","e">>,
       <<"n","e","t","w","o","r","k"," ","p","a","t","h">>,
       <<"h","o","w"," ","d","o","e","s"," ","t","r","a","f","f","i","c"," ","g","e","t"," ","t","o">>,
       <<"t","r","a","c","e"," ","p","a","t","h">>,
       <<"s","h","o","w"," ","p","a","t","h">>,
       <<"n","e","t","w","o","r","k"," ","t","r","a","c","e">>,
       <<"r","o","u","t","e"," ","t","r","a","c","e">>,
       <<"t","r","a","c","e"," ","n","e","t","w","o","r","k">>,
       <<"s","h","o","w"," ","n","e","t","w","o","r","k"," ","p","a","t","h">>,
       <<"t","r","a","c","e"," ","i","n","t","e","r","n","e","t"," ","p","a","t","h">>,
       <<"h","o","w"," ","d","a","t","a"," ","t","r","a","v","e","l","s">>,
       <<"d","a","t","a"," ","p","a","t","h">>,
       <<"c","o","n","n","e","c","t","i","o","n"," ","p","a","t","h">> >>

patterns_netstat ==
    << <<"n","e","t","w","o","r","k"," ","s","t","a","t","u","s">>,
       <<"s","h","o","w"," ","c","o","n","n","e","c","t","i","o","n","s">>,
       <<"a","c","t","i","v","e"," ","c","o","n","n","e","c","t","i","o","n","s">>,
       <<"n","e","t","w","o","r","k"," ","s","t","a","t","i","s","t","i","c","s">>,
       <<"p","o","r","t"," ","u","s","a","g","e">>,
       <<"n","e","t","w","o","r","k"," ","p","o","r","t","s">>,
       <<"a","c","t","i","v","e"," ","p","o","r","t","s">>,
       <<"c","o","n","n","e","c","t","i","o","n"," ","s","t","a","t","u","s">>,
       <<"n","e","t","w","o","r","k"," ","a","c","t","i","v","i","t","y">>,
       <<"p","o","r","t"," ","s","t","a","t","u","s">>,
       <<"c","o","n","n","e","c","t","i","o","n"," ","l","i","s","t">>,
       <<"n","e","t","w","o","r","k"," ","c","o","n","n","e","c","t","i","o","n","s">>,
       <<"a","c","t","i","v","e"," ","n","e","t","w","o","r","k">>,
       <<"p","o","r","t"," ","c","o","n","n","e","c","t","i","o","n","s">> >>

patterns_ver ==
    << <<"w","i","n","d","o","w","s"," ","v","e","r","s","i","o","n">>,
       <<"o","s"," ","v","e","r","s","i","o","n">>,
       <<"s","y","s","t","e","m"," ","v","e","r","s","i","o","n">>,
       <<"w","h","a","t"," ","v","e","r","s","i","o","n">>,
       <<"w","h","i","c","h"," ","w","i","n","d","o","w","s">>,
       <<"w","i","n","d","o","w","s"," ","i","n","f","o">>,
       <<"o","s"," ","i","n","f","o">>,
       <<"s","y","s","t","e","m"," ","i","n","f","o">>,
       <<"v","e","r","s","i","o","n"," ","i","n","f","o">>,
       <<"w","i","n","d","o","w","s"," ","d","e","t","a","i","l","s">>,
       <<"o","s"," ","d","e","t","a","i","l","s">>,
       <<"s","y","s","t","e","m"," ","d","e","t","a","i","l","s">> >>

patterns_date ==
    << <<"w","h","a","t"," ","d","a","t","e">>,
       <<"c","u","r","r","e","n","t"," ","d","a","t","e">>,
       <<"t","o","d","a","y"," ","d","a","t","e">>,
       <<"s","h","o","w"," ","d","a","t","e">>,
       <<"w","h","a","t"," ","d","a","y"," ","i","s"," ","i","t">>,
       <<"t","o","d","a","y">>,
       <<"c","u","r","r","e","n","t"," ","d","a","y">>,
       <<"w","h","a","t"," ","d","a","y">>,
       <<"d","a","t","e"," ","t","o","d","a","y">>,
       <<"s","h","o","w"," ","t","o","d","a","y">>,
       <<"w","h","a","t"," ","i","s"," ","t","o","d","a","y">>,
       <<"t","o","d","a","y","'","s"," ","d","a","t","e">> >>

patterns_time ==
    << <<"w","h","a","t"," ","t","i","m","e">>,
       <<"c","u","r","r","e","n","t"," ","t","i","m","e">>,
       <<"s","h","o","w"," ","t","i","m","e">>,
       <<"t","e","l","l"," ","m","e"," ","t","h","e"," ","t","i","m","e">>,
       <<"w","h","a","t"," ","i","s"," ","t","h","e"," ","t","i","m","e">>,
       <<"c","u","r","r","e","n","t"," ","h","o","u","r">>,
       <<"w","h","a","t"," ","h","o","u","r">>,
       <<"t","i","m","e"," ","n","o","w">>,
       <<"s","h","o","w"," ","c","u","r","r","e","n","t"," ","t","i","m","e">>,
       <<"w","h","a","t"," ","i","s"," ","n","o","w">>,
       <<"c","u","r","r","e","n","t"," ","m","o","m","e","n","t">> >>

patterns_help ==
    << <<"h","o","w"," ","d","o"," ","i"," ","u","s","e">>,
       <<"w","h","a","t"," ","d","o","e","s">>,
       <<"e","x","p","l","a","i","n"," ","c","o","m","m","a","n","d">>,
       <<"c","o","m","m","a","n","d"," ","h","e","l","p">>,
       <<"u","s","a","g","e"," ","o","f">>,
       <<"s","y","n","t","a","x"," ","f","o","r">>,
       <<"e","x","a","m","p","l","e","s"," ","o","f">>,
       <<"h","o","w"," ","t","o"," ","u","s","e">>,
       <<"h","e","l","p"," ","w","i","t","h">>,
       <<"e","x","p","l","a","i","n"," ","h","o","w">>,
       <<"s","h","o","w"," ","h","o","w">>,
       <<"g","u","i","d","e"," ","m","e">>,
       <<"t","e","l","l"," ","m","e"," ","a","b","o","u","t">>,
       <<"w","h","a","t"," ","i","s">>,
       <<"h","o","w"," ","d","o","e","s">>,
       <<"c","a","n"," ","y","o","u"," ","e","x","p","l","a","i","n">> >>

patterns_search ==
    << <<"s","e","a","r","c","h"," ","f","o","r"," ","c","o","m","m","a","n","d">>,
       <<"f","i","n","d"," ","c","o","m","m","a","n","d">>,
       <<"l","o","o","k","u","p"," ","c","o","m","m","a","n","d">>,
       <<"w","h","a","t"," ","c","o","m","m","a","n","d">>,
       <<"i","s"," ","t","h","e","r","e"," ","a"," ","c","o","m","m","a","n","d">>,
       <<"c","o","m","m","a","n","d"," ","t","o">>,
       <<"h","o","w"," ","t","o">>,
       <<"w","h","a","t"," ","c","a","n"," ","i"," ","u","s","e">>,
       <<"w","h","i","c","h"," ","c","o","m","m","a","n","d">>,
       <<"f","i","n","d"," ","a"," ","w","a","y"," ","t","o">>,
       <<"h","o","w"," ","c","a","n"," ","i">>,
       <<"w","h","a","t"," ","s","h","o","u","l","d"," ","i"," ","u","s","e">>,
       <<"l","o","o","k","i","n","g"," ","f","o","r"," ","c","o","m","m","a","n","d">>,
       <<"n","e","e","d"," ","c","o","m","m","a","n","d">>,
       <<"w","a","n","t"," ","t","o">> >>

patterns_web_search ==
    << <<"s","e","a","r","c","h"," ","f","o","r">>,
       <<"l","o","o","k"," ","u","p">>,
       <<"f","i","n","d"," ","i","n","f","o","r","m","a","t","i","o","n"," ","a","b","o","u","t">>,
       <<"w","h","a","t"," ","i","s">>,
       <<"t","e","l","l"," ","m","e"," ","a","b","o","u","t">>,
       <<"s","e","a","r","c","h"," ","o","n","l","i","n","e">>,
       <<"l","o","o","k"," ","o","n","l","i","n","e">>,
       <<"f","i","n","d"," ","o","n","l","i","n","e">>,
       <<"w","e","b"," ","s","e","a","r","c","h">>,
       <<"i","n","t","e","r","n","e","t"," ","s","e","a","r","c","h">>,
       <<"s","e","a","r","c","h"," ","t","h","e"," ","w","e","b">>,
       <<"s","e","a","r","c","h"," ","i","n","t","e","r","n","e","t">>,
       <<"f","i","n","d"," ","o","u","t"," ","a","b","o","u","t">>,
       <<"l","e","a","r","n"," ","a","b","o","u","t">>,
       <<"g","e","t"," ","i","n","f","o","r","m","a","t","i","o","n"," ","a","b","o","u","t">>,
       <<"s","e","a","r","c","h"," ","d","u","c","k","d","u","c","k","g","o">>,
       <<"d","u","c","k","d","u","c","k","g","o"," ","s","e","a","r","c","h">>,
       <<"s","e","a","r","c","h"," ","d","u","c","k"," ","d","u","c","k"," ","g","o">>,
       <<"w","h","a","t"," ","d","o"," ","y","o","u"," ","k","n","o","w"," ","a","b","o","u","t">>,
       <<"t","e","l","l"," ","m","e"," ","m","o","r","e"," ","a","b","o","u","t">>,
       <<"s","e","a","r","c","h"," ","f","o","r"," ","i","n","f","o","r","m","a","t","i","o","n">>,
       <<"f","i","n","d"," ","d","e","t","a","i","l","s"," ","a","b","o","u","t">>,
       <<"g","e","t"," ","d","e","t","a","i","l","s"," ","a","b","o","u","t">>,
       <<"s","e","a","r","c","h"," ","d","e","t","a","i","l","s"," ","a","b","o","u","t">> >>

kw_ipconfig == <<"i","p","c","o","n","f","i","g">>
kw_ping == <<"p","i","n","g">>
kw_tracert == <<"t","r","a","c","e","r","t">>
kw_netstat == <<"n","e","t","s","t","a","t">>
kw_dir == <<"d","i","r">>
kw_type == <<"t","y","p","e">>
kw_echo == <<"e","c","h","o">>
kw_systeminfo == <<"s","y","s","t","e","m","i","n","f","o">>
kw_ver == <<"v","e","r">>
kw_hostname == <<"h","o","s","t","n","a","m","e">>
kw_whoami == <<"w","h","o","a","m","i">>
kw_date == <<"d","a","t","e">>
kw_time == <<"t","i","m","e">>

\* the three reserved keys of command_patterns
key_help == <<"h","e","l","p">>
key_search == <<"s","e","a","r","c","h">>
key_web_search == <<"w","e","b","_","s","e","a","r","c","h">>

\* ALLOWED_COMMANDS, in the order the set literal lists its members
ALLOWED_COMMANDS ==
    << kw_ipconfig, kw_ping, kw_tracert, kw_netstat, kw_dir, kw_type, kw_echo,
       kw_systeminfo, kw_ver, kw_hostname, kw_whoami, kw_date, kw_time >>

\* an allow-list check that lets every command through
IsAllowed_everything(w) == w = w

\* membership in the set ALLOWED_COMMANDS
IsAllowed(w) == \E i \in 1..Len(ALLOWED_COMMANDS) : ALLOWED_COMMANDS[i] = w

Reverse(seq) == [i \in 1..Len(seq) |-> seq[Len(seq) + 1 - i]]

\* ALLOWED_COMMANDS is a Python set of strings: the order in which a for
\* loop visits it is fixed within one process and differs between
\* processes (string hashing is randomised per process).
SetOrders == {ALLOWED_COMMANDS, Reverse(ALLOWED_COMMANDS)}

\* self.command_patterns: a dict, visited in insertion order
command_patterns ==
    << [cmd |-> kw_ipconfig,    patterns |-> patterns_ipconfig],
       [cmd |-> kw_systeminfo,  patterns |-> patterns_systeminfo],
       [cmd |-> kw_whoami,      patterns |-> patterns_whoami],
       [cmd |-> kw_hostname,    patterns |-> patterns_hostname],
       [cmd |-> kw_dir,         patterns |-> patterns_dir],
       [cmd |-> kw_ping,        patterns |-> patterns_ping],
       [cmd |-> kw_tracert,     patterns |-> patterns_tracert],
       [cmd |-> kw_netstat,     patterns |-> patterns_netstat],
       [cmd |-> kw_ver,         patterns |-> patterns_ver],
       [cmd |-> kw_date,        patterns |-> patterns_date],
       [cmd |-> kw_time,        patterns |-> patterns_time],
       [cmd |-> key_help,       patterns |-> patterns_help],
       [cmd |-> key_search,     patterns |-> patterns_search],
       [cmd |-> key_web_search, patterns |-> patterns_web_search] >>

(***************************************************************************)
(* GrokAgent.detect_command_intent                                         *)
(***************************************************************************)
\* the returned tuple (intent, command, args)
Intent(kind, command, args) == [kind |-> kind, command |-> command, args |-> args]

\* any(pattern in user_input for pattern in patterns)
AnyPatternIn(patterns, ui) ==
    \E i \in 1..Len(patterns) : Contains(ui, patterns[i])

\* the pattern at which  for pattern in patterns: if pattern in user_input
\* stops
FirstPatternIn(patterns, ui) ==
    patterns[CHOOSE i \in 1..Len(patterns) :
                /\ Contains(ui, patterns[i])
                /\ \A j \in 1..(i - 1) : ~Contains(ui, patterns[j])]

\* web-search query: text after the first pattern of the list found in the
\* input
WebSearchQuery(ui) ==
    Strip(SplitLast(ui, FirstPatternIn(patterns_web_search, ui)))

\* search query: every search pattern is removed in turn, stripping after
\* each removal (nothing is left to remove from an empty query)
RECURSIVE RemovePatterns(_, _, _)
RemovePatterns(q, patterns, i) ==
    IF i > Len(patterns) \/ q = <<>> THEN q
    ELSE RemovePatterns(Strip(Replace(q, patterns[i])), patterns, i + 1)

\* a query from which only the first search phrase found is removed
SearchQuery_first_phrase(ui) ==
    Strip(Replace(ui, FirstPatternIn(patterns_search, ui)))

SearchQuery(ui) == RemovePatterns(ui, patterns_search, 1)

s_can_i_reach == <<"c","a","n"," ","i"," ","r","e","a","c","h">>
s_test == <<"t","e","s","t">>
s_check == <<"c","h","e","c","k">>
tracert_phrases ==
    << <<"h","o","w"," ","d","o","e","s"," ","t","r","a","f","f","i","c"," ","g","e","t"," ","t","o">>,
       <<"t","r","a","c","e"," ","p","a","t","h"," ","t","o">>,
       <<"s","h","o","w"," ","p","a","t","h"," ","t","o">> >>
dir_phrases ==
    << <<"s","h","o","w"," ","f","i","l","e","s"," ","i","n">>,
       <<"l","i","s","t"," ","f","i","l","e","s"," ","i","n">>,
       <<"w","h","a","t"," ","i","s"," ","i","n">> >>

\* args = user_input.split(phrase)[-1].strip() for the first phrase found
PhraseArgs(phrases, ui) ==
    IF AnyPatternIn(phrases, ui)
    THEN Some(Strip(SplitLast(ui, FirstPatternIn(phrases, ui))))
    ELSE None

\* a per-command check that extracts no argument
ExtractArgs_none(cmd, ui) == None

\* the argument extraction of the per-command check
ExtractArgs(cmd, ui) ==
    IF cmd = kw_ping THEN
        IF Contains(ui, s_can_i_reach)
        THEN Some(Strip(SplitLast(ui, s_can_i_reach)))
        ELSE IF Contains(ui, s_test) \/ Contains(ui, s_check)
        THEN LET parts == SplitWords(ui)
                 hits == {i \in 1..Len(parts) :
                             parts[i] \in {s_test, s_check} /\ i + 1 <= Len(parts)}
             IN  IF hits = {} THEN None
                 ELSE Some(Strip(parts[(CHOOSE i \in hits : \A j \in hits : i <= j) + 1]))
        ELSE None
    ELSE IF cmd = kw_tracert THEN PhraseArgs(tracert_phrases, ui)
    ELSE IF cmd = kw_dir THEN PhraseArgs(dir_phrases, ui)
    ELSE None

\* set(pattern.split()) of every registered phrase
pattern_words_of ==
    [pattern \in UNION {ToSet(command_patterns[i].patterns) : i \in 1..Len(command_patterns)}
        |-> ToSet(SplitWords(pattern))]

\* an overlap test that also accepts exactly one half
FuzzyMatch_inclusive(pattern, words) ==
    LET pattern_words == pattern_words_of[pattern]
    IN  2 * Cardinality(pattern_words \cap words) >= Cardinality(pattern_words)

\* len(pattern_words.intersection(words)) / len(pattern_words) > 0.5
FuzzyMatch(pattern, words) ==
    LET pattern_words == pattern_words_of[pattern]
    IN  2 * Cardinality(pattern_words \cap words) > Cardinality(pattern_words)

\* a per-command loop that does not skip the help, search and web_search
\* entries
CommandMatches_no_skip(entry, ui, words) ==
    \/ AnyPatternIn(entry.patterns, ui)
    \/ \E i \in 1..Len(entry.patterns) : FuzzyMatch(entry.patterns[i], words)

\* one iteration of the per-command loop returns
CommandMatches(entry, ui, words) ==
    /\ entry.cmd \notin {key_help, key_search, key_web_search}
    /\ \/ AnyPatternIn(entry.patterns, ui)
       \/ \E i \in 1..Len(entry.patterns) : FuzzyMatch(entry.patterns[i], words)

\* a direct check that returns the remainder even when it is empty
DirectIntent_keeps_empty(ui, order) ==
    LET hits == {i \in 1..Len(order) : StartsWith(ui, order[i])}
    IN  IF hits = {} THEN Intent("none", None, None)
        ELSE LET cmd == order[CHOOSE i \in hits : \A j \in hits : i <= j]
             IN  Intent("execute", Some(cmd), Some(Strip(Tail_from(ui, Len(cmd)))))

\* the direct command usage check
DirectIntent(ui, order) ==
    LET hits == {i \in 1..Len(order) : StartsWith(ui, order[i])}
    IN  IF hits = {} THEN Intent("none", None, None)
        ELSE LET cmd == order[CHOOSE i \in hits : \A j \in hits : i <= j]
                 args == Strip(Tail_from(ui, Len(cmd)))
             IN  Intent("execute", Some(cmd), IF args # <<>> THEN Some(args) ELSE None)

\* a per-command check in which the command registered last wins
CommandIntent_last_match(ui, order) ==
    LET words == ToSet(SplitWords(ui))
        hits == {i \in 1..Len(command_patterns) :
                    CommandMatches(command_patterns[i], ui, words)}
    IN  IF hits # {}
        THEN LET cmd == command_patterns[CHOOSE i \in hits : \A j \in hits : i >= j].cmd
             IN  Intent("execute", Some(cmd), ExtractArgs(cmd, ui))
        ELSE DirectIntent(ui, order)

\* the per-command check, followed by the direct command usage check
CommandIntent(ui, order) ==
    LET words == ToSet(SplitWords(ui))
        hits == {i \in 1..Len(command_patterns) :
                    CommandMatches(command_patterns[i], ui, words)}
    IN  IF hits # {}
        THEN LET cmd == command_patterns[CHOOSE i \in hits : \A j \in hits : i <= j].cmd
             IN  Intent("execute", Some(cmd), ExtractArgs(cmd, ui))
        ELSE DirectIntent(ui, order)

\* the help check returns only when an allow-listed keyword occurs in the input
HelpCommands(ui, order) == {i \in 1..Len(order) : Contains(ui, order[i])}

\* the checks of detect_command_intent, in order, on the normalised input
DetectNormalised(ui, order) ==
    IF AnyPatternIn(patterns_web_search, ui)
    THEN Intent("web_search", None, Some(WebSearchQuery(ui)))
    ELSE IF AnyPatternIn(patterns_help, ui) /\ HelpCommands(ui, order) # {}
    THEN LET hits == HelpCommands(ui, order)
         IN  Intent("help", Some(order[CHOOSE i \in hits : \A j \in hits : i <= j]), None)
    ELSE IF AnyPatternIn(patterns_search, ui)
    THEN Intent("search", None, Some(SearchQuery(ui)))
    ELSE CommandIntent(ui, order)

\* a classifier that matches the phrases against the input as typed
detect_case_sensitive(user_input, order) ==
    DetectNormalised(Strip(user_input), order)

\* user_input = user_input.lower().strip(), then the checks
detect_command_intent(user_input, order) ==
    DetectNormalised(Strip(Lower(user_input)), order)

(***************************************************************************)
(* Platform binaries and the built-in commands of execute_command.         *)
(***************************************************************************)
\* WINDOWS_COMMANDS: keyword -> executable (the %SystemRoot%\System32
\* directory prefix is left out)
WINDOWS_COMMANDS ==
    << [cmd |-> kw_dir, path |-> <<"c","m","d",".","e","x","e">>],
       [cmd |-> kw_echo, path |-> <<"c","m","d",".","e","x","e">>],
       [cmd |-> kw_type, path |-> <<"c","m","d",".","e","x","e">>],
       [cmd |-> kw_ipconfig, path |-> <<"i","p","c","o","n","f","i","g",".","e","x","e">>],
       [cmd |-> kw_ping, path |-> <<"p","i","n","g",".","e","x","e">>],
       [cmd |-> kw_tracert, path |-> <<"t","r","a","c","e","r","t",".","e","x","e">>],
       [cmd |-> kw_netstat, path |-> <<"n","e","t","s","t","a","t",".","e","x","e">>],
       [cmd |-> kw_systeminfo, path |-> <<"s","y","s","t","e","m","i","n","f","o",".","e","x","e">>],
       [cmd |-> kw_ver, path |-> <<"c","m","d",".","e","x","e">>],
       [cmd |-> kw_hostname, path |-> <<"h","o","s","t","n","a","m","e",".","e","x","e">>],
       [cmd |-> kw_whoami, path |-> <<"w","h","o","a","m","i",".","e","x","e">>],
       [cmd |-> kw_date, path |-> <<"c","m","d",".","e","x","e">>],
       [cmd |-> kw_time, path |-> <<"c","m","d",".","e","x","e">>] >>

\* get_command_path(cmd)
get_command_path(cmd, sys_platform) ==
    IF sys_platform = "win32"
    THEN IF \E i \in 1..Len(WINDOWS_COMMANDS) : WINDOWS_COMMANDS[i].cmd = cmd
         THEN WINDOWS_COMMANDS[CHOOSE i \in 1..Len(WINDOWS_COMMANDS) :
                                   WINDOWS_COMMANDS[i].cmd = cmd].path
         ELSE cmd
    ELSE cmd

s_config == <<"c","o","n","f","i","g">>
s_set == <<"s","e","t">>
s_history == <<"h","i","s","t","o","r","y">>
s_clear_history == <<"c","l","e","a","r"," ","h","i","s","t","o","r","y">>
s_slash_c == <<"/","c">>

\* admin_required_commands
admin_required_commands == {kw_netstat, kw_systeminfo, kw_ipconfig}

\* the commands execute_command runs through cmd.exe /c on Windows
shell_builtins == {kw_dir, kw_echo, kw_ver, kw_date, kw_time, kw_type}

\* load_config: default_config, restricted to the settings the executor reads
default_config == [retry_attempts |-> 3, retry_delay |-> 1, api_timeout |-> 30]

\* load_config merges the settings of grok_config.json over the defaults
Configs ==
    {default_config} \cup
    {[default_config EXCEPT !.retry_attempts = n, !.retry_delay = 2] :
        n \in 0..MaxAttempts}

\* self.max_history
max_history == 100

(***************************************************************************)
(* What one call of subprocess.run does: it completes (with any exit       *)
(* code), times out, or raises another exception.                          *)
(***************************************************************************)
completed_ok ==
    [kind |-> "completed", stdout |-> "out", stderr |-> "", returncode |-> 0, msg |-> ""]
completed_nonzero ==
    [kind |-> "completed", stdout |-> "", stderr |-> "err", returncode |-> 1, msg |-> ""]
raised_timeout ==
    [kind |-> "TimeoutExpired", stdout |-> "partial", stderr |-> "partial err",
     returncode |-> 0, msg |-> "timed out"]
raised_oserror ==
    [kind |-> "Exception", stdout |-> "", stderr |-> "", returncode |-> 0, msg |-> "boom"]

HookOutcomes == {completed_ok, completed_nonzero, raised_timeout, raised_oserror}

\* what the hook does on its 1st, 2nd, ... call; entries after a completed
\* call are never consulted and repeat it
Oracles(n) ==
    {o \in [1..n -> HookOutcomes] :
        \A i \in 2..n : o[i - 1].kind = "completed" => o[i] = o[i - 1]}

\* what ShellExecuteEx does when elevation is requested
ShellOutcomes == {"elevated", "refused", "raises"}

NoError == "<None>"

\* return values of execute_command
Ret(tag, text, cmd, seconds) ==
    [tag |-> tag, text |-> text, cmd |-> cmd, seconds |-> seconds]
ReturnsNone == Ret("none", "", <<>>, 0)
NoResult == Ret("unset", "", <<>>, 0)

(***************************************************************************)
(* GrokAgent.add_to_history, save_session, clear_history                   *)
(***************************************************************************)
\* save_session writes the last ten conversation turns and the history
save_session(conversation, history) ==
    [exists |-> TRUE,
     conversation_history |->
        SubSeq(conversation, IF Len(conversation) > 10 THEN Len(conversation) - 9 ELSE 1,
               Len(conversation)),
     command_history |-> history]

\* a pop that removes nothing
pop_first_keeps(history) == history

\* self.command_history.pop(0)
pop_first(history) == Tail(history)

\* a history that leaves blank commands out
add_to_history_skips_blank(history, cmd) ==
    IF Strip(cmd) = <<>> THEN history
    ELSE LET appended == Append(history, cmd)
         IN  IF Len(appended) > max_history THEN Tail(appended) ELSE appended

\* the history after add_to_history(command)
add_to_history(history, cmd) ==
    LET appended == Append(history, cmd)
    IN  IF Len(appended) > max_history THEN pop_first(appended) ELSE appended

\* load_session: the histories taken from the session file when it exists
load_session(file, conversation, history) ==
    IF file.exists
    THEN [conversation_history |-> file.conversation_history,
          command_history |-> file.command_history]
    ELSE [conversation_history |-> conversation, command_history |-> history]

(***************************************************************************)
(* GrokAgent.request_admin_privileges                                      *)
(***************************************************************************)
\* a request that reports success whatever the elevation attempt did
request_admin_privileges_grants(admin, sys_platform, shell_outcome) == "True"

\* the value returned, or SystemExit when sys.exit(0) is reached
request_admin_privileges(admin, sys_platform, shell_outcome) ==
    IF admin THEN "True"
    ELSE IF sys_platform # "win32" THEN "False"
    ELSE IF shell_outcome = "elevated" THEN "SystemExit"
    ELSE "False"

(***************************************************************************)
(* GrokAgent.retry_with_backoff around subprocess.run                      *)
(***************************************************************************)
\* one call of the hook, as recorded by a spy
HookCall(args, outcome) == [args |-> args, shell |-> FALSE, outcome |-> outcome]

\* a constant delay between attempts
BackoffDelay_constant(base_delay, attempt) == base_delay + 0 * attempt

\* delay = base_delay * (2 ** attempt)
BackoffDelay(base_delay, attempt) == base_delay * (2 ^ attempt)

\* the loop  for attempt in range(max_attempts)  from a given attempt on;
\* acc collects the calls, the sleeps and the error bookkeeping
RECURSIVE RetryFrom(_, _, _, _, _, _)

\* a loop that gives up after the first failed attempt
RetryFrom_single_attempt(attempt, max_attempts, base_delay, args, oracle, acc) ==
    IF attempt >= max_attempts
    THEN [acc EXCEPT !.status = "fell_through"]
    ELSE LET o == oracle[attempt + 1]
             called == [acc EXCEPT !.calls = Append(@, HookCall(args, o))]
         IN  IF o.kind = "completed"
             THEN [called EXCEPT !.status = "returned", !.value = o]
             ELSE [called EXCEPT !.status = "raised", !.value = o,
                                 !.last_error = o.msg, !.error_count = @ + 1]

RetryFrom(attempt, max_attempts, base_delay, args, oracle, acc) ==
    IF attempt >= max_attempts
    THEN [acc EXCEPT !.status = "fell_through"]
    ELSE LET o == oracle[attempt + 1]
             called == [acc EXCEPT !.calls = Append(@, HookCall(args, o))]
         IN  IF o.kind = "completed"
             THEN [called EXCEPT !.status = "returned", !.value = o]
             ELSE LET failed == [called EXCEPT !.last_error = o.msg,
                                               !.error_count = @ + 1]
                  IN  IF attempt = max_attempts - 1
                      THEN [failed EXCEPT !.status = "raised", !.value = o]
                      ELSE RetryFrom(attempt + 1, max_attempts, base_delay, args, oracle,
                                     [failed EXCEPT !.sleeps =
                                         Append(@, BackoffDelay(base_delay, attempt))])

\* a wrapper that runs the command once more when it exits with a nonzero
\* code
retry_with_backoff_reruns(cfg, args, oracle, errors, last) ==
    LET r == RetryFrom(0, cfg.retry_attempts, cfg.retry_delay, args, oracle,
                       [status |-> "running", value |-> completed_ok, calls |-> <<>>,
                        sleeps |-> <<>>, error_count |-> errors, last_error |-> last])
    IN  IF r.status = "returned" /\ r.value.returncode # 0
        THEN [r EXCEPT !.calls = Append(@, HookCall(args, r.value)),
                       !.sleeps = Append(@, cfg.retry_delay)]
        ELSE r

retry_with_backoff(cfg, args, oracle, errors, last) ==
    RetryFrom(0, cfg.retry_attempts, cfg.retry_delay, args, oracle,
              [status |-> "running", value |-> completed_ok, calls |-> <<>>,
               sleeps |-> <<>>, error_count |-> errors, last_error |-> last])

(***************************************************************************)
(* GrokAgent.execute_command                                               *)
(***************************************************************************)
\* the argument list handed to subprocess.run
BuildArgs(base_cmd, cmd_parts, sys_platform) ==
    LET cmd_path == get_command_path(base_cmd, sys_platform)
    IN  IF sys_platform = "win32" /\ base_cmd \in shell_builtins
        THEN <<cmd_path, s_slash_c>> \o Tail(cmd_parts)
        ELSE <<cmd_path>> \o Tail(cmd_parts)

\* the config branch: show_config, update_config(parts[2], parts[3]) or
\* nothing
ConfigCommand(parts) ==
    IF Len(parts) = 1 THEN ReturnsNone
    ELSE IF Len(parts) = 3 /\ parts[2] = s_set
    THEN IF Len(parts) < 4
         THEN Ret("error", "list index out of range", <<>>, 0)
         ELSE ReturnsNone
    ELSE ReturnsNone

\* the names of the settings, as typed
ConfigKeys ==
    [retry_attempts |-> <<"r","e","t","r","y","_","a","t","t","e","m","p","t","s">>,
     retry_delay |-> <<"r","e","t","r","y","_","d","e","l","a","y">>,
     api_timeout |-> <<"a","p","i","_","t","i","m","e","o","u","t">>]

\* update_config(key, value): a known key is set and save_config writes the
\* file; an unknown key changes nothing
update_config(cfg, file, key, value) ==
    IF \E k \in DOMAIN cfg : ConfigKeys[k] = key
    THEN LET updated == [k \in DOMAIN cfg |-> IF ConfigKeys[k] = key THEN value ELSE cfg[k]]
         IN  [config |-> updated, config_file |-> updated]
    ELSE [config |-> cfg, config_file |-> file]

\* the arguments of the update_config call of the config branch, when it is
\* reached: parts[2] and parts[3] of a command of three parts
ConfigUpdate(parts) ==
    IF Len(parts) = 3 /\ parts[2] = s_set /\ Len(parts) >= 4
    THEN Some(<<parts[3], parts[4]>>)
    ELSE None

\* execute_command up to the call of retry_with_backoff: either an early
\* return (early = TRUE) or the argument list to run
Prepare(cmd, admin, sys_platform, shell_outcome) ==
    LET lowered == Lower(cmd)
        cmd_parts == SplitWords(cmd)
        base_cmd == Lower(cmd_parts[1])
        requested == request_admin_privileges(admin, sys_platform, shell_outcome)
        Early(r) == [early |-> TRUE, result |-> r, args |-> <<>>, clears |-> FALSE,
                     admin_request |-> "not_called", update |-> None]
    IN  IF StartsWith(lowered, s_config)
        THEN [Early(ConfigCommand(cmd_parts)) EXCEPT !.update = ConfigUpdate(cmd_parts)]
        ELSE IF lowered = s_history THEN Early(ReturnsNone)
        ELSE IF lowered = s_clear_history
        THEN [Early(ReturnsNone) EXCEPT !.clears = TRUE]
        ELSE IF cmd_parts = <<>> THEN Early(Ret("empty", "", <<>>, 0))
        ELSE IF ~IsAllowed(base_cmd) THEN Early(Ret("not_allowed", "", base_cmd, 0))
        ELSE IF base_cmd \in admin_required_commands /\ ~admin /\ requested = "SystemExit"
        THEN [Early(Ret("SystemExit", "", <<>>, 0)) EXCEPT !.admin_request = requested]
        ELSE IF base_cmd \in admin_required_commands /\ ~admin /\ requested = "False"
        THEN [Early(Ret("needs_admin", "", base_cmd, 0)) EXCEPT !.admin_request = requested]
        ELSE [early |-> FALSE, result |-> NoResult,
              args |-> BuildArgs(base_cmd, cmd_parts, sys_platform), clears |-> FALSE,
              update |-> None,
              admin_request |-> IF base_cmd \in admin_required_commands /\ ~admin
                                THEN requested ELSE "not_called"]

\* a handler in which the generic except clause also takes the timeout
ResultOf_generic_except(r, cfg) ==
    IF r.status = "returned"
    THEN Ret("output", IF r.value.stdout # "" THEN r.value.stdout ELSE r.value.stderr,
             <<>>, 0)
    ELSE IF r.status = "fell_through"
    THEN Ret("error", "'NoneType' object has no attribute 'stdout'", <<>>, 0)
    ELSE Ret("error", r.value.msg, <<>>, 0)

\* the return value for what retry_with_backoff did
ResultOf(r, cfg) ==
    IF r.status = "returned"
    THEN Ret("output", IF r.value.stdout # "" THEN r.value.stdout ELSE r.value.stderr,
             <<>>, 0)
    ELSE IF r.status = "fell_through"
    THEN Ret("error", "'NoneType' object has no attribute 'stdout'", <<>>, 0)
    ELSE IF r.value.kind = "TimeoutExpired"
    THEN Ret("timeout", "", <<>>, cfg.api_timeout)
    ELSE Ret("error", r.value.msg, <<>>, 0)

\* the whole call: the state it leaves behind and the value it returns;
\* pre is what Prepare returned for this command
execute_command(cmd, pre, st, oracle) ==
    LET history == add_to_history(st.command_history, cmd)
        settings == IF pre.update.none
                    THEN [config |-> st.config, config_file |-> st.config_file]
                    ELSE update_config(st.config, st.config_file,
                                       pre.update.val[1], pre.update.val[2])
    IN  IF pre.early
        THEN [result |-> pre.result, hook_calls |-> <<>>, sleeps |-> <<>>,
              config |-> settings.config, config_file |-> settings.config_file,
              command_history |-> IF pre.clears THEN <<>> ELSE history,
              session_writes |-> IF pre.clears THEN <<history, <<>> >> ELSE <<history>>,
              admin_request |-> pre.admin_request,
              error_count |-> st.error_count, last_error |-> st.last_error]
        ELSE LET r == retry_with_backoff(st.config, pre.args, oracle,
                                         st.error_count, st.last_error)
             IN  [result |-> ResultOf(r, st.config),
                  config |-> st.config, config_file |-> st.config_file,
                  hook_calls |-> r.calls, sleeps |-> r.sleeps,
                  command_history |-> history,
                  session_writes |-> <<history>>,
                  admin_request |-> pre.admin_request,
                  error_count |-> IF r.status = "returned" THEN 0 ELSE r.error_count,
                  last_error |-> IF r.status = "returned" THEN NoError ELSE r.last_error]

(***************************************************************************)
(* GrokAgent.chat                                                          *)
(***************************************************************************)
\* the names bound in the body of chat(): self, its parameter and the
\* targets of its assignments before the execute branch
chat_locals == {"self", "user_input", "intent", "cmd", "args", "search_query",
                "results", "help_text"}

\* the names bound at module level
module_globals == {"os", "sys", "subprocess", "re", "logging", "json", "requests",
                   "console", "logger", "ALLOWED_COMMANDS", "WINDOWS_COMMANDS",
                   "get_command_path", "load_api_key", "CommandInfo", "GrokAgent"}

\* name lookup inside chat(): an unbound name raises NameError
NameBound(name) == name \in chat_locals \cup module_globals

\* what the web search collaborator returns: no results or some
SearchOutcomes == {"no_results", "results"}

\* what client.chat.completions.create does
ApiOutcomes == {"response", "no_choices", "raises"}

\* usage counters of a completion (the values of the test double)
prompt_tokens == 10
completion_tokens == 20

\* price_per_1k_tokens, in units of 1e-7 dollar per token
price_per_token == 3

system_message ==
    [role |-> "system", content |-> <<"s","y","s","t","e","m"," ","p","r","o","m","p","t">>]
response_text == <<"T","e","s","t"," ","r","e","s","p","o","n","s","e">>

\* a fallback that runs the line as a command instead of forwarding it
ChatFallback_executes(api_outcome) ==
    <<"print:executing", "execute_command", "process_command_output", "print:output">>

\* the chat fallback: the line is sent to the chat API
ChatFallback(api_outcome) ==
    IF api_outcome = "response"
    THEN <<"chat_api", "update_usage", "print:response">>
    ELSE IF api_outcome = "no_choices"
    THEN <<"chat_api", "print:no_response">>
    ELSE <<"chat_api", "print:chat_error">>

\* the calls and prints chat() makes after classification, in order
ChatEvents(it, search_outcome, api_outcome) ==
    IF it.kind = "web_search"
    THEN <<"print:searching", "web_search",
           IF search_outcome = "results" THEN "print:results" ELSE "print:no_results">>
    ELSE IF it.kind = "help"
    THEN IF ~it.command.none
         THEN <<"get_command_help", "print:help">>
         ELSE <<"display_help">>
    ELSE IF it.kind = "search"
    THEN <<"web_search",
           IF search_outcome = "results" THEN "print:results" ELSE "print:no_results">>
    ELSE IF it.kind = "execute" /\ ~it.command.none /\ IsAllowed(it.command.val)
    THEN IF NameBound("command")
         THEN <<"print:executing", "execute_command", "process_command_output",
                "print:output">>
         ELSE <<"print:executing", "NameError", "print:error_processing_input">>
    ELSE ChatFallback(api_outcome)

\* an event occurs in a trace
Occurs(events, e) == \E i \in 1..Len(events) : events[i] = e

\* event e occurs in a trace before event f
Before(events, e, f) ==
    \E i, j \in 1..Len(events) : i < j /\ events[i] = e /\ events[j] = f

(***************************************************************************)
(* GrokAgent.process_command_output                                        *)
(***************************************************************************)
s_newline == <<"\n">>
s_colon == <<":">>

\* str.splitlines() on text whose line boundary is "\n"
RECURSIVE splitlines(_)
splitlines(s) ==
    IF s = <<>> THEN <<>>
    ELSE LET i == Find(s, s_newline)
         IN  IF i = 0 THEN <<s>>
             ELSE <<SubSeq(s, 1, i - 1)>> \o splitlines(Tail_from(s, i))

\* s.split(p) for a separator p
RECURSIVE Split(_, _)
Split(s, p) ==
    LET i == Find(s, p)
    IN  IF i = 0 THEN <<s>>
        ELSE <<SubSeq(s, 1, i - 1)>> \o Split(Tail_from(s, i + Len(p) - 1), p)

\* s.split(p, 1)
SplitOnce(s, p) ==
    LET i == Find(s, p)
    IN  IF i = 0 THEN <<s>>
        ELSE <<SubSeq(s, 1, i - 1), Tail_from(s, i + Len(p) - 1)>>

\* sep.join(ss)
RECURSIVE Join(_, _)
Join(sep, ss) ==
    IF ss = <<>> THEN <<>>
    ELSE IF Len(ss) = 1 THEN ss[1]
    ELSE ss[1] \o sep \o Join(sep, Tail(ss))

\* s.strip(chars)
StripChars(s, chars) ==
    LET kept == {i \in 1..Len(s) : s[i] \notin chars}
    IN  IF kept = {} THEN <<>>
        ELSE LET lo == CHOOSE i \in kept : \A j \in kept : i <= j
                 hi == CHOOSE i \in kept : \A j \in kept : i >= j
             IN  SubSeq(s, lo, hi)

\* a dict as the sequence of its items in insertion order
HasKey(d, k) == \E i \in 1..Len(d) : d[i].key = k
Get(d, k) == d[CHOOSE i \in 1..Len(d) : d[i].key = k].val
Put(d, k, v) ==
    IF HasKey(d, k)
    THEN [i \in 1..Len(d) |-> IF d[i].key = k THEN [key |-> k, val |-> v] ELSE d[i]]
    ELSE Append(d, [key |-> k, val |-> v])

\* how a block of statements ends: with a value or with an exception
Returned(v) == [raised |-> "none", value |-> v]
Raised(e) == [raised |-> e, value |-> <<>>]

s_Ethernet_adapter == <<"E","t","h","e","r","n","e","t"," ","a","d","a","p","t","e","r">>
s_Wireless == <<"W","i","r","e","l","e","s","s">>
s_IPv4_Address == <<"I","P","v","4"," ","A","d","d","r","e","s","s">>
s_Physical_Address == <<"P","h","y","s","i","c","a","l"," ","A","d","d","r","e","s","s">>
s_TCP == <<"T","C","P">>
s_UDP == <<"U","D","P">>
s_DIR == <<"<","D","I","R",">">>

\* network_info[current_adapter] = {}
NoAdapterInfo == [ip |-> None, mac |-> None]

\* the loop over the lines of ipconfig; line.split(':')[1] raises
\* IndexError on a line without a colon
RECURSIVE ScanIpconfig(_, _, _)
ScanIpconfig(lines, network_info, current_adapter) ==
    IF lines = <<>> THEN Returned(network_info)
    ELSE LET line == Head(lines)
             fields == Split(line, s_colon)
             truthy == ~current_adapter.none /\ current_adapter.val # <<>>
         IN  IF Contains(line, s_Ethernet_adapter) \/ Contains(line, s_Wireless)
             THEN LET adapter == Strip(fields[1])
                  IN  ScanIpconfig(Tail(lines), Put(network_info, adapter, NoAdapterInfo),
                                   Some(adapter))
             ELSE IF truthy /\ Contains(line, s_IPv4_Address)
             THEN IF Len(fields) < 2 THEN Raised("IndexError")
                  ELSE ScanIpconfig(Tail(lines),
                           Put(network_info, current_adapter.val,
                               [Get(network_info, current_adapter.val)
                                   EXCEPT !.ip = Some(Strip(fields[2]))]),
                           current_adapter)
             ELSE IF truthy /\ Contains(line, s_Physical_Address)
             THEN IF Len(fields) < 2 THEN Raised("IndexError")
                  ELSE ScanIpconfig(Tail(lines),
                           Put(network_info, current_adapter.val,
                               [Get(network_info, current_adapter.val)
                                   EXCEPT !.mac = Some(Strip(fields[2]))]),
                           current_adapter)
             ELSE ScanIpconfig(Tail(lines), network_info, current_adapter)

RECURSIVE FormatAdapters(_)
FormatAdapters(network_info) ==
    IF network_info = <<>> THEN <<>>
    ELSE LET adapter == Head(network_info).key
             info == Head(network_info).val
         IN  s_newline \o adapter \o <<":", "\n">>
             \o (IF ~info.ip.none
                 THEN <<" "," ","I","P"," ","A","d","d","r","e","s","s",":"," ">> \o info.ip.val \o s_newline
                 ELSE <<>>)
             \o (IF ~info.mac.none
                 THEN <<" "," ","M","A","C"," ","A","d","d","r","e","s","s",":"," ">> \o info.mac.val \o s_newline
                 ELSE <<>>)
             \o FormatAdapters(Tail(network_info))

ProcessIpconfig(output) ==
    LET scanned == ScanIpconfig(splitlines(output), <<>>, None)
    IN  IF scanned.raised # "none" THEN scanned
        ELSE Returned(<<"Y","o","u","r"," ","n","e","t","w","o","r","k"," ","i","n","f","o","r","m","a","t","i","o","n",":","\n">>
                      \o FormatAdapters(scanned.value))

\* the loop over the lines of systeminfo
RECURSIVE ScanSysteminfo(_, _)
ScanSysteminfo(lines, system_info) ==
    IF lines = <<>> THEN system_info
    ELSE LET line == Head(lines)
             parts == SplitOnce(line, s_colon)
         IN  IF Contains(line, s_colon)
             THEN ScanSysteminfo(Tail(lines),
                                 Put(system_info, Strip(parts[1]), Strip(parts[2])))
             ELSE ScanSysteminfo(Tail(lines), system_info)

important_fields ==
    << <<"O","S"," ","N","a","m","e">>,
       <<"O","S"," ","V","e","r","s","i","o","n">>,
       <<"S","y","s","t","e","m"," ","T","y","p","e">>,
       <<"T","o","t","a","l"," ","P","h","y","s","i","c","a","l"," ","M","e","m","o","r","y">>,
       <<"A","v","a","i","l","a","b","l","e"," ","P","h","y","s","i","c","a","l"," ","M","e","m","o","r","y">> >>

RECURSIVE FormatFields(_, _)
FormatFields(fields, system_info) ==
    IF fields = <<>> THEN <<>>
    ELSE (IF HasKey(system_info, Head(fields))
          THEN s_newline \o Head(fields) \o <<":", " ">> \o Get(system_info, Head(fields))
          ELSE <<>>)
         \o FormatFields(Tail(fields), system_info)

ProcessSysteminfo(output) ==
    Returned(<<"Y","o","u","r"," ","s","y","s","t","e","m"," ","i","n","f","o","r","m","a","t","i","o","n",":","\n">>
             \o FormatFields(important_fields, ScanSysteminfo(splitlines(output), <<>>)))

\* the connections of netstat, already formatted
RECURSIVE FormatConnections(_)
FormatConnections(lines) ==
    IF lines = <<>> THEN <<>>
    ELSE LET line == Head(lines)
             parts == SplitWords(line)
         IN  (IF (Contains(line, s_TCP) \/ Contains(line, s_UDP)) /\ Len(parts) >= 4
              THEN s_newline \o parts[1] \o <<" ">> \o parts[2] \o <<" ","-",">"," ">>
                   \o parts[3] \o <<" ","(">> \o parts[4] \o <<")">>
              ELSE <<>>)
             \o FormatConnections(Tail(lines))

ProcessNetstat(output) ==
    Returned(<<"A","c","t","i","v","e"," ","n","e","t","w","o","r","k"," ","c","o","n","n","e","c","t","i","o","n","s",":","\n">>
             \o FormatConnections(splitlines(output)))

\* lines[0].split()[-1].strip('[]'); [-1] raises IndexError on a blank line
Target(first_line) ==
    LET words == SplitWords(first_line)
    IN  IF words = <<>> THEN Raised("IndexError")
        ELSE Returned(StripChars(words[Len(words)], {"[", "]"}))

ProcessPing(output) ==
    LET lines == splitlines(output)
        target == Target(lines[1])
    IN  IF Len(lines) < 2 THEN Returned(output)
        ELSE IF target.raised # "none" THEN target
        ELSE Returned(<<"P","i","n","g"," ","r","e","s","u","l","t","s"," ","f","o","r"," ">> \o target.value \o <<":", "\n">>
                      \o Join(s_newline, SubSeq(lines, Len(lines) - 1, Len(lines))))

RECURSIVE FormatHops(_)
FormatHops(lines) ==
    IF lines = <<>> THEN <<>>
    ELSE (IF Strip(Head(lines)) # <<>> THEN s_newline \o Head(lines) ELSE <<>>)
         \o FormatHops(Tail(lines))

ProcessTracert(output) ==
    LET lines == splitlines(output)
        target == Target(lines[1])
    IN  IF Len(lines) < 2 THEN Returned(output)
        ELSE IF target.raised # "none" THEN target
        ELSE Returned(<<"R","o","u","t","e"," ","t","o"," ">> \o target.value \o <<":", "\n">>
                      \o FormatHops(Tail(lines)))

\* the non-blank lines that do (dirs) or do not (files) contain <DIR>
RECURSIVE Entries(_, _)
Entries(lines, dirs) ==
    IF lines = <<>> THEN <<>>
    ELSE (IF Strip(Head(lines)) # <<>> /\ (Contains(Head(lines), s_DIR) <=> dirs)
          THEN <<Head(lines)>> ELSE <<>>)
         \o Entries(Tail(lines), dirs)

ProcessDir(output) ==
    LET lines == splitlines(output)
        dirs == Entries(lines, TRUE)
        files == Entries(lines, FALSE)
    IN  Returned(<<"D","i","r","e","c","t","o","r","y"," ","c","o","n","t","e","n","t","s",":","\n">>
                 \o (IF dirs # <<>>
                     THEN <<"\n","D","i","r","e","c","t","o","r","i","e","s",":","\n">> \o Join(s_newline, dirs)
                     ELSE <<>>)
                 \o (IF files # <<>>
                     THEN <<"\n","\n","F","i","l","e","s",":","\n">> \o Join(s_newline, files)
                     ELSE <<>>))

\* the body of the try block
ProcessBody(cmd, output) ==
    IF cmd = kw_ipconfig THEN ProcessIpconfig(output)
    ELSE IF cmd = kw_systeminfo THEN ProcessSysteminfo(output)
    ELSE IF cmd = kw_netstat THEN ProcessNetstat(output)
    ELSE IF cmd = kw_ping THEN ProcessPing(output)
    ELSE IF cmd = kw_tracert THEN ProcessTracert(output)
    ELSE IF cmd = kw_dir THEN ProcessDir(output)
    ELSE IF cmd = kw_whoami
    THEN Returned(<<"Y","o","u"," ","a","r","e"," ","l","o","g","g","e","d"," ","i","n"," ","a","s"," ">> \o Strip(output))
    ELSE IF cmd = kw_hostname
    THEN Returned(<<"Y","o","u","r"," ","c","o","m","p","u","t","e","r","'","s"," ","n","a","m","e"," ","i","s"," ">> \o Strip(output))
    ELSE IF cmd = kw_ver
    THEN Returned(<<"Y","o","u"," ","a","r","e"," ","r","u","n","n","i","n","g"," ">> \o Strip(output))
    ELSE IF cmd = kw_date
    THEN Returned(<<"C","u","r","r","e","n","t"," ","d","a","t","e",":"," ">> \o Strip(output))
    ELSE IF cmd = kw_time
    THEN Returned(<<"C","u","r","r","e","n","t"," ","t","i","m","e",":"," ">> \o Strip(output))
    ELSE Returned(<<"C","o","m","m","a","n","d"," ","o","u","t","p","u","t",":","\n">> \o output)

\* a function without the except clause: the exception reaches the caller
process_command_output_unguarded(cmd, output) == ProcessBody(cmd, output)

\* try: ... except Exception: log and return output
process_command_output(cmd, output) ==
    LET body == ProcessBody(cmd, output)
    IN  IF body.raised # "none" THEN Returned(output) ELSE body

(***************************************************************************)
(* Inputs.                                                                 *)
(***************************************************************************)
\* command strings given to execute_command
Commands ==
    { <<"e","c","h","o"," ","h","i">>,
      <<"P","I","N","G"," ","h","o","s","t">>,
      <<"i","p","c","o","n","f","i","g">>,
      <<"r","m"," ","-","r","f"," ","/">>,
      <<"c","o","n","f","i","g">>,
      <<"C","o","n","f","i","g","u","r","e">>,
      <<"c","o","n","f","i","g"," ","s","e","t"," ","k">>,
      <<"h","i","s","t","o","r","y">>,
      <<"c","l","e","a","r"," ","h","i","s","t","o","r","y">>,
      <<>> }

\* text fragments of the input lines given to the classifier
Chunks ==
    { <<"w","h","a","t"," ","i","s">>,
      <<" ","m","y"," ","i","p">>,
      <<"s","e","a","r","c","h"," ","f","o","r">>,
      <<" ","r","u","s","t"," ","o","w","n","e","r","s","h","i","p">>,
      <<"L","o","o","k"," ","U","p">>,
      <<"p","i","n","g">>,
      <<"e","c","h","o">>,
      <<" ","H","i">>,
      <<"r","m"," ","-","r","f"," ","/">>,
      <<" ">>,
      <<"h","o","w"," ","d","o"," ","i"," ","u","s","e"," ">>,
      <<"f","i","n","d"," ","c","o","m","m","a","n","d">>,
      <<" ","t","e","s","t"," ","c","o","n","n","e","c","t","i","o","n">>,
      <<" ","a"," ","s","e","a","r","c","h"," ","f","o","r"," ","b">>,
      <<"w","h","o"," ","a","m">>,
      <<" ","w","a","n","t"," ","t","o">>,
      <<"s","y","s","t","e","m"," ","i","n","f","o">>,
      <<"c","o","n","n","e","c","t","i","o","n">>,
      <<"c","a","n"," ","i"," ","r","e","a","c","h">>,
      <<"p","i","n","g"," ","o","r"," ","e","c","h","o">> }

DIGITS == <<"0","1","2","3","4","5","6","7","8","9">>

\* str(n)
RECURSIVE Decimal(_)
Decimal(n) ==
    IF n < 10 THEN <<DIGITS[n + 1]>>
    ELSE Decimal(n \div 10) \o <<DIGITS[(n % 10) + 1]>>

\* the n-th command string of a long session
Numbered(n) == <<"j","o","b"," ">> \o Decimal(n)

\* the command history an earlier run of the agent left in the session file
StoredHistory(n) == [i \in 1..n |-> <<"o","l","d"," ">> \o Decimal(i)]
StoredSizes == {0, 1, max_history - 1, max_history}

\* grok_session.json at start-up: absent, or written by an earlier run
SessionFiles ==
    {[exists |-> FALSE, conversation_history |-> <<>>, command_history |-> <<>>]} \cup
    {[exists |-> TRUE, conversation_history |-> <<>>, command_history |-> StoredHistory(n)] :
        n \in StoredSizes}

RECURSIVE ChunkSeqs(_)
ChunkSeqs(n) ==
    IF n = 0 THEN {<<>>}
    ELSE LET shorter == ChunkSeqs(n - 1)
         IN  shorter \cup {Append(cs, c) : cs \in shorter, c \in Chunks}

\* input lines: up to MaxChunks fragments written one after another
Inputs == {Concat(cs) : cs \in ChunkSeqs(MaxChunks)}

(***************************************************************************)
(* State.                                                                  *)
(***************************************************************************)
VARIABLES
    pc,               \* what the agent is doing
    user_input,       \* the line being handled
    set_order,        \* iteration order of ALLOWED_COMMANDS in this process
    intent,           \* last value returned by detect_command_intent
    platform,         \* sys.platform
    is_admin,         \* self.is_admin
    config,           \* self.config
    config_file,      \* contents of grok_config.json
    command_history,  \* self.command_history
    session_file,     \* contents of grok_session.json
    error_count,      \* self.error_count
    last_error,       \* self.last_error
    command,          \* argument of the last execute_command call
    result,           \* value returned by the last execute_command call
    hook_behaviour,   \* what subprocess.run does on its 1st, 2nd, ... call of that call
    hook_calls,       \* calls of subprocess.run made by that call
    sleeps,           \* time.sleep delays of that call
    exec_count,       \* number of execute_command calls made so far
    shell_behaviour,  \* what ShellExecuteEx did in that call, "unused" if not called
    admin_request,    \* what request_admin_privileges returned in that call
    session_writes,   \* command histories save_session wrote during that call
    conversation_history,  \* self.conversation_history
    total_tokens_used,     \* self.total_tokens_used
    total_cost,            \* self.total_cost, in units of 1e-7 dollar
    events,           \* calls and prints made for the last input line, in order
    lines_read,       \* number of iterations of the loop of run() so far
    fault,            \* exception that reached run() in the last iteration, or "none"
    output_keyword,   \* first argument of the last process_command_output call
    tool_output,      \* its second argument
    processed         \* how that call ended

classifyVars == <<user_input, set_order, intent>>
agentVars == <<platform, is_admin, config, config_file>>
execVars == <<command_history, session_file, error_count, last_error, command,
              result, hook_behaviour, hook_calls, sleeps, exec_count,
              shell_behaviour, admin_request, session_writes>>
chatVars == <<conversation_history, total_tokens_used, total_cost, events>>
replVars == <<lines_read, fault>>
outputVars == <<output_keyword, tool_output, processed>>
vars == <<pc, classifyVars, agentVars, execVars, chatVars, replVars, outputVars>>

NoIntent == Intent("unset", None, None)
NoSession == [exists |-> FALSE, conversation_history |-> <<>>, command_history |-> <<>>]

\* the executor state after GrokAgent.__init__
FreshExecutor ==
    /\ command_history = <<>>
    /\ session_file = NoSession
    /\ error_count = 0
    /\ last_error = NoError
    /\ command = <<>>
    /\ result = NoResult
    /\ hook_behaviour = <<>>
    /\ hook_calls = <<>>
    /\ sleeps = <<>>
    /\ exec_count = 0
    /\ shell_behaviour = "unused"
    /\ admin_request = "not_called"
    /\ session_writes = <<>>

\* the chat state after GrokAgent.__init__
FreshChat ==
    /\ conversation_history = <<system_message>>
    /\ total_tokens_used = 0
    /\ total_cost = 0
    /\ events = <<>>

\* run() has not read a line yet
FreshRepl ==
    /\ lines_read = 0
    /\ fault = "none"

\* process_command_output has not been called
NotProcessed ==
    /\ output_keyword = <<>>
    /\ tool_output = <<>>
    /\ processed = Returned(<<>>)

(***************************************************************************)
(* The classifier applied to one input line.                               *)
(***************************************************************************)
InitClassify ==
    /\ pc = "input"
    /\ user_input \in Inputs
    /\ set_order \in SetOrders
    /\ intent = NoIntent
    /\ platform = "win32"
    /\ is_admin = FALSE
    /\ config = default_config
    /\ config_file = config
    /\ FreshExecutor
    /\ FreshChat
    /\ FreshRepl
    /\ NotProcessed

Classify ==
    /\ pc = "input"
    /\ intent' = detect_command_intent(user_input, set_order)
    /\ pc' = "classified"
    /\ UNCHANGED <<user_input, set_order, agentVars, execVars, chatVars, replVars,
                   outputVars>>

NextClassify == Classify

SpecClassify == InitClassify /\ [][NextClassify]_vars

(***************************************************************************)
(* The executor: a run of up to MaxExec execute_command calls.             *)
(***************************************************************************)
InitExec ==
    /\ pc = "ready"
    /\ user_input = <<>>
    /\ set_order = ALLOWED_COMMANDS
    /\ intent = NoIntent
    /\ platform \in {"win32", "linux"}
    /\ is_admin \in BOOLEAN
    /\ config \in Configs
    /\ config_file = config
    /\ FreshExecutor
    /\ FreshChat
    /\ FreshRepl
    /\ NotProcessed

\* one call execute_command(cmd): what it does to the executor's state
ExecuteCall(cmd) ==
    /\ \E shell_outcome \in ShellOutcomes :
         \E pre \in {Prepare(cmd, is_admin, platform, shell_outcome)} :
           \E oracle \in (IF pre.early THEN {<<>>} ELSE Oracles(config.retry_attempts)) :
             \E after \in {execute_command(cmd, pre,
                              [command_history |-> command_history, config |-> config,
                               config_file |-> config_file,
                               error_count |-> error_count, last_error |-> last_error],
                              oracle)} :
               /\ command' = cmd
               /\ result' = after.result
               /\ config' = after.config
               /\ config_file' = after.config_file
               /\ hook_behaviour' = oracle
               /\ hook_calls' = after.hook_calls
               /\ sleeps' = after.sleeps
               /\ command_history' = after.command_history
               /\ session_writes' = after.session_writes
               /\ session_file' = save_session(conversation_history,
                                               after.session_writes[Len(after.session_writes)])
               /\ admin_request' = after.admin_request
               /\ shell_behaviour' =
                      IF after.admin_request # "not_called" /\ platform = "win32"
                      THEN shell_outcome ELSE "unused"
               /\ error_count' = after.error_count
               /\ last_error' = after.last_error
               /\ exec_count' = exec_count + 1

\* execute_command(cmd) called on its own; sys.exit(0) ends the process
Execute(cmd) ==
    /\ ExecuteCall(cmd)
    /\ pc' = IF result'.tag = "SystemExit" THEN "exited" ELSE "ready"
    /\ UNCHANGED <<classifyVars, platform, is_admin, chatVars, replVars, outputVars>>

ExecuteCommand ==
    /\ pc = "ready"
    /\ exec_count < MaxExec
    /\ \E cmd \in Commands : Execute(cmd)

NextExec == ExecuteCommand

SpecExec == InitExec /\ [][NextExec]_vars

(***************************************************************************)
(* A long session: start-up with a session file, then execute_command     *)
(* calls that fill, overflow and clear the command history.                *)
(***************************************************************************)
InitHistory ==
    /\ pc = "start"
    /\ user_input = <<>>
    /\ set_order = ALLOWED_COMMANDS
    /\ intent = NoIntent
    /\ platform = "win32"
    /\ is_admin = FALSE
    /\ config = default_config
    /\ config_file = config
    /\ command_history = <<>>
    /\ session_file \in SessionFiles
    /\ error_count = 0
    /\ last_error = NoError
    /\ command = <<>>
    /\ result = NoResult
    /\ hook_behaviour = <<>>
    /\ hook_calls = <<>>
    /\ sleeps = <<>>
    /\ exec_count = 0
    /\ shell_behaviour = "unused"
    /\ admin_request = "not_called"
    /\ session_writes = <<>>
    /\ FreshChat
    /\ FreshRepl
    /\ NotProcessed

\* self.load_session() at the end of __init__
LoadSession ==
    /\ pc = "start"
    /\ \E loaded \in {load_session(session_file, conversation_history, command_history)} :
         /\ conversation_history' = loaded.conversation_history
         /\ command_history' = loaded.command_history
    /\ pc' = "ready"
    /\ UNCHANGED <<classifyVars, agentVars, session_file, error_count, last_error, command,
                   result, hook_behaviour, hook_calls, sleeps, exec_count, shell_behaviour,
                   admin_request, session_writes, total_tokens_used, total_cost, events,
                   replVars, outputVars>>

ExecuteNumbered ==
    /\ pc = "ready"
    /\ exec_count < MaxAppends
    /\ \E cmd \in {Numbered(exec_count + 1), s_clear_history} : Execute(cmd)

NextHistory == LoadSession \/ ExecuteNumbered

SpecHistory == InitHistory /\ [][NextHistory]_vars

(***************************************************************************)
(* One chat() turn on an input line.                                       *)
(***************************************************************************)
Init ==
    /\ pc = "input"
    /\ user_input \in Inputs
    /\ set_order \in SetOrders
    /\ intent = NoIntent
    /\ platform = "win32"
    /\ is_admin = FALSE
    /\ config = default_config
    /\ config_file = config
    /\ FreshExecutor
    /\ FreshChat
    /\ FreshRepl
    /\ NotProcessed

\* a chat() that records the user message before it calls the API
ChatTurn_records_first(line) ==
    /\ \E it \in {detect_command_intent(line, set_order)},
          search_outcome \in SearchOutcomes, api_outcome \in ApiOutcomes :
         \E evs \in {ChatEvents(it, search_outcome, api_outcome)} :
           /\ intent' = it
           /\ events' = <<"detect_command_intent">> \o evs
           /\ IF Occurs(evs, "chat_api")
              THEN conversation_history' = conversation_history \o
                          <<[role |-> "user", content |-> line]>> \o
                          (IF Occurs(evs, "update_usage")
                           THEN <<[role |-> "assistant", content |-> response_text]>>
                           ELSE <<>>)
              ELSE UNCHANGED conversation_history
           /\ IF Occurs(evs, "update_usage")
              THEN /\ total_tokens_used' = total_tokens_used + prompt_tokens + completion_tokens
                   /\ total_cost' = total_cost +
                          (prompt_tokens + completion_tokens) * price_per_token
              ELSE UNCHANGED <<total_tokens_used, total_cost>>

\* one call chat(line): what it does to the chat state
ChatTurn(line) ==
    /\ \E it \in {detect_command_intent(line, set_order)},
          search_outcome \in SearchOutcomes, api_outcome \in ApiOutcomes :
         \E evs \in {ChatEvents(it, search_outcome, api_outcome)} :
           /\ intent' = it
           /\ events' = <<"detect_command_intent">> \o evs
           /\ IF Occurs(evs, "update_usage")
              THEN /\ conversation_history' = conversation_history \o
                          <<[role |-> "user", content |-> line],
                            [role |-> "assistant", content |-> response_text]>>
                   /\ total_tokens_used' = total_tokens_used + prompt_tokens + completion_tokens
                   /\ total_cost' = total_cost +
                          (prompt_tokens + completion_tokens) * price_per_token
              ELSE UNCHANGED <<conversation_history, total_tokens_used, total_cost>>

Chat ==
    /\ pc = "input"
    /\ ChatTurn(user_input)
    /\ pc' = "done"
    /\ UNCHANGED <<user_input, set_order, agentVars, execVars, replVars, outputVars>>

Next == Chat

Spec == Init /\ [][Next]_vars

(***************************************************************************)
(* GrokAgent.run: the interactive loop, one action per kind of iteration.  *)
(***************************************************************************)
s_slash == <<"/">>
s_slash_exit == <<"/","e","x","i","t">>
s_help == <<"h","e","l","p">>
s_info == <<"i","n","f","o">>
s_usage == <<"u","s","a","g","e">>
s_request_admin == <<"r","e","q","u","e","s","t"," ","a","d","m","i","n">>
s_model_ == <<"m","o","d","e","l"," ">>
s_tokens_ == <<"t","o","k","e","n","s"," ">>
s_exec_ == <<"e","x","e","c"," ">>

\* lines typed at the prompt
Lines ==
    { <<>>,
      <<" ">>,
      s_slash_exit,
      <<"/","E","X","I","T">>,
      <<"/","e","x","i","t"," ">>,
      <<"/","h","e","l","p">>,
      <<"/","u","s","a","g","e">>,
      <<"/","m","o","d","e","l"," ","m">>,
      <<"/","b","o","g","u","s">>,
      <<"/","r","e","q","u","e","s","t"," ","a","d","m","i","n">>,
      <<"/","e","x","e","c"," ","i","p","c","o","n","f","i","g">>,
      <<"/","e","x","e","c"," ","e","c","h","o"," ","h","i">>,
      <<"/","e","x","e","c"," ","r","m"," ","-","r","f"," ","/">>,
      <<"p","i","n","g">>,
      <<"h","i">> }

\* exceptions console.input raises instead of returning a line
ReadFaults == {"KeyboardInterrupt", "EOFError"}

\* a configuration with a single attempt per command
run_config == [default_config EXCEPT !.retry_attempts = 1, !.retry_delay = 2]

\* command = user_input[1:].strip()
SlashCommand(line) == Strip(Tail_from(line, 1))

\* cmd = command[5:].strip()
ExecArgument(cmd) == Strip(Tail_from(cmd, 5))

\* any(cmd.startswith(allowed) for allowed in ALLOWED_COMMANDS)
StartsWithAllowed(cmd) ==
    \E i \in 1..Len(ALLOWED_COMMANDS) : StartsWith(cmd, ALLOWED_COMMANDS[i])

\* the slash commands that only display something or set the model
IsDisplayCommand(cmd) ==
    \/ cmd \in {s_help, s_info, s_usage}
    \/ StartsWith(cmd, s_model_)
    \/ StartsWith(cmd, s_tokens_)

\* which branch of the loop body a line takes
Branch(line) ==
    IF Strip(line) = <<>> THEN "blank"
    ELSE IF Lower(line) = s_slash_exit THEN "exit"
    ELSE IF ~StartsWith(line, s_slash) THEN "chat"
    ELSE LET cmd == SlashCommand(line)
         IN  IF cmd = s_help THEN "display"
             ELSE IF cmd = s_request_admin THEN "request_admin"
             ELSE IF IsDisplayCommand(cmd) THEN "display"
             ELSE IF StartsWith(cmd, s_exec_)
             THEN IF StartsWithAllowed(ExecArgument(cmd)) THEN "exec" ELSE "exec_refused"
             ELSE "unknown"

InitRun ==
    /\ pc = "prompt"
    /\ user_input = <<>>
    /\ set_order = ALLOWED_COMMANDS
    /\ intent = NoIntent
    /\ platform \in {"win32", "linux"}
    /\ is_admin \in BOOLEAN
    /\ config = run_config
    /\ config_file = config
    /\ FreshExecutor
    /\ FreshChat
    /\ FreshRepl
    /\ NotProcessed

\* an iteration begins: the loop is running and reads once more
Reads(line) ==
    /\ pc = "prompt"
    /\ lines_read < MaxLines
    /\ lines_read' = lines_read + 1
    /\ user_input' = line

\* console.input raises; both except clauses print and the loop goes on
ReadFails ==
    /\ \E e \in ReadFaults :
         /\ Reads(<<>>)
         /\ fault' = e
         /\ events' = <<IF e = "KeyboardInterrupt" THEN "print:use_exit" ELSE "print:error">>
    /\ pc' = "prompt"
    /\ UNCHANGED <<set_order, intent, agentVars, execVars, outputVars,
                   conversation_history, total_tokens_used, total_cost>>

\* if not user_input.strip(): continue
RunBlank ==
    /\ \E line \in Lines :
         /\ Branch(line) = "blank"
         /\ Reads(line)
    /\ events' = <<>>
    /\ fault' = "none"
    /\ pc' = "prompt"
    /\ UNCHANGED <<set_order, intent, agentVars, execVars, outputVars,
                   conversation_history, total_tokens_used, total_cost>>

\* '/exit': usage, Goodbye, break
RunExit ==
    /\ \E line \in Lines :
         /\ Branch(line) = "exit"
         /\ Reads(line)
    /\ events' = <<"display_usage", "print:goodbye">>
    /\ fault' = "none"
    /\ pc' = "ended"
    /\ UNCHANGED <<set_order, intent, agentVars, execVars, outputVars,
                   conversation_history, total_tokens_used, total_cost>>

\* /help, /info, /usage, /model, /tokens
RunDisplay ==
    /\ \E line \in Lines :
         /\ Branch(line) = "display"
         /\ Reads(line)
    /\ events' = <<"display">>
    /\ fault' = "none"
    /\ pc' = "prompt"
    /\ UNCHANGED <<set_order, intent, agentVars, execVars, outputVars,
                   conversation_history, total_tokens_used, total_cost>>

\* any other slash command
RunUnknown ==
    /\ \E line \in Lines :
         /\ Branch(line) = "unknown"
         /\ Reads(line)
    /\ events' = <<"print:unknown_command">>
    /\ fault' = "none"
    /\ pc' = "prompt"
    /\ UNCHANGED <<set_order, intent, agentVars, execVars, outputVars,
                   conversation_history, total_tokens_used, total_cost>>

\* '/request admin': True returns from run(), sys.exit(0) passes both
\* except clauses, False prints the failure
RunRequestAdmin ==
    /\ \E line \in Lines, shell_outcome \in ShellOutcomes :
         /\ Branch(line) = "request_admin"
         /\ Reads(line)
         /\ \E requested \in {request_admin_privileges(is_admin, platform, shell_outcome)} :
              /\ admin_request' = requested
              /\ shell_behaviour' = IF ~is_admin /\ platform = "win32"
                                    THEN shell_outcome ELSE "unused"
              /\ events' = IF requested = "True" THEN <<"print:restart">>
                           ELSE IF requested = "False" THEN <<"print:request_failed">>
                           ELSE <<>>
              /\ fault' = IF requested = "SystemExit" THEN "SystemExit" ELSE "none"
              /\ pc' = IF requested = "True" THEN "returned"
                       ELSE IF requested = "SystemExit" THEN "exited"
                       ELSE "prompt"
    /\ UNCHANGED <<set_order, intent, agentVars, command_history, session_file,
                   error_count, last_error, command, result, hook_behaviour,
                   hook_calls, sleeps, exec_count, session_writes, outputVars,
                   conversation_history, total_tokens_used, total_cost>>

\* '/exec <cmd>' with an allowed prefix: execute_command(cmd)
RunExec ==
    /\ \E line \in Lines :
         /\ Branch(line) = "exec"
         /\ Reads(line)
         /\ ExecuteCall(ExecArgument(SlashCommand(line)))
    /\ events' = IF result'.tag \in {"SystemExit", "none"} THEN <<"execute_command">>
                 ELSE <<"execute_command", "print:output">>
    /\ fault' = IF result'.tag = "SystemExit" THEN "SystemExit" ELSE "none"
    /\ pc' = IF result'.tag = "SystemExit" THEN "exited" ELSE "prompt"
    /\ UNCHANGED <<set_order, intent, platform, is_admin, outputVars,
                   conversation_history, total_tokens_used, total_cost>>

\* '/exec <cmd>' without an allowed prefix
RunExecRefused ==
    /\ \E line \in Lines :
         /\ Branch(line) = "exec_refused"
         /\ Reads(line)
    /\ events' = <<"print:command_not_allowed">>
    /\ fault' = "none"
    /\ pc' = "prompt"
    /\ UNCHANGED <<set_order, intent, agentVars, execVars, outputVars,
                   conversation_history, total_tokens_used, total_cost>>

\* any other line: self.chat(user_input)
RunChat ==
    /\ \E line \in Lines :
         /\ Branch(line) = "chat"
         /\ Reads(line)
         /\ ChatTurn(line)
    /\ fault' = "none"
    /\ pc' = "prompt"
    /\ UNCHANGED <<set_order, agentVars, execVars, outputVars>>

NextRun ==
    \/ ReadFails
    \/ RunBlank
    \/ RunExit
    \/ RunDisplay
    \/ RunUnknown
    \/ RunRequestAdmin
    \/ RunExec
    \/ RunExecRefused
    \/ RunChat

SpecRun == InitRun /\ [][NextRun]_vars

(***************************************************************************)
(* process_command_output applied to a command keyword and an output text. *)
(***************************************************************************)
\* number of lines of an output text
MaxOutputLines == 2

\* lines found in the output of the tools, well formed or not
OutputLines ==
    { <<>>,
      <<" ">>,
      <<"E","t","h","e","r","n","e","t"," ","a","d","a","p","t","e","r"," ","E",":">>,
      <<"I","P","v","4"," ","A","d","d","r","e","s","s",":"," ","1">>,
      <<"I","P","v","4"," ","A","d","d","r","e","s","s">>,
      <<"P","h","y","s","i","c","a","l"," ","A","d","d","r","e","s","s">>,
      <<"O","S"," ","N","a","m","e",":"," ","W">>,
      <<"T","C","P"," ","a"," ","b"," ","c">>,
      <<"P","i","n","g","i","n","g"," ","h"," ","[","1","]">>,
      <<"<","D","I","R",">"," ","d">>,
      <<"u","s","e","r">> }

\* the texts of at most n lines
RECURSIVE OutputTexts(_)
OutputTexts(n) ==
    IF n = 0 THEN {<<>>}
    ELSE OutputLines \cup OutputTexts(n - 1)
         \cup {text \o s_newline \o line : text \in OutputTexts(n - 1), line \in OutputLines}

\* the keywords chat() passes; type and echo have no branch of their own
Keywords == ToSet(ALLOWED_COMMANDS)

InitOutput ==
    /\ pc = "output"
    /\ user_input = <<>>
    /\ set_order = ALLOWED_COMMANDS
    /\ intent = NoIntent
    /\ platform = "win32"
    /\ is_admin = FALSE
    /\ config = default_config
    /\ config_file = config
    /\ FreshExecutor
    /\ FreshChat
    /\ FreshRepl
    /\ output_keyword \in Keywords
    /\ tool_output \in OutputTexts(MaxOutputLines)
    /\ processed = Returned(<<>>)

ProcessOutput ==
    /\ pc = "output"
    /\ processed' = process_command_output(output_keyword, tool_output)
    /\ pc' = "processed"
    /\ UNCHANGED <<classifyVars, agentVars, execVars, chatVars, replVars,
                   output_keyword, tool_output>>

NextOutput == ProcessOutput

SpecOutput == InitOutput /\ [][NextOutput]_vars

(***************************************************************************)
(* The config commands of execute_command.                                 *)
(***************************************************************************)
\* config commands as typed, and one ordinary command
ConfigCommands ==
    { s_config,
      <<"c","o","n","f","i","g"," ","s","e","t"," ","r","e","t","r","y","_","d","e","l","a","y"," ","5">>,
      <<"c","o","n","f","i","g"," ","s","e","t"," ","r","e","t","r","y","_","d","e","l","a","y">>,
      <<"c","o","n","f","i","g"," ","s","e","t"," ","c","o","l","o","u","r"," ","5">>,
      <<"C","O","N","F","I","G"," ","S","E","T"," ","a","p","i","_","t","i","m","e","o","u","t"," ","5">>,
      <<"e","c","h","o"," ","h","i">> }

InitConfig ==
    /\ pc = "ready"
    /\ user_input = <<>>
    /\ set_order = ALLOWED_COMMANDS
    /\ intent = NoIntent
    /\ platform \in {"win32", "linux"}
    /\ is_admin \in BOOLEAN
    /\ config = default_config
    /\ config_file = config
    /\ FreshExecutor
    /\ FreshChat
    /\ FreshRepl
    /\ NotProcessed

ExecuteConfig ==
    /\ pc = "ready"
    /\ exec_count < MaxExec
    /\ \E cmd \in ConfigCommands : Execute(cmd)

NextConfig == ExecuteConfig

SpecConfig == InitConfig /\ [][NextConfig]_vars

(***************************************************************************)
(* Properties.                                                             *)
(***************************************************************************)
in_rm_rf == <<"r","m"," ","-","r","f"," ","/">>
in_what_is_my_ip == <<"w","h","a","t"," ","i","s"," ","m","y"," ","i","p">>
in_search_for_rust == <<"s","e","a","r","c","h"," ","f","o","r"," ","r","u","s","t"," ","o","w","n","e","r","s","h","i","p">>
in_ping_look_up == <<"p","i","n","g","L","o","o","k"," ","U","p">>
in_echo_hi == <<"e","c","h","o"," ","H","i">>
s_hi == <<"h","i">>
s_rust_ownership == <<"r","u","s","t"," ","o","w","n","e","r","s","h","i","p">>

AllowList == ToSet(ALLOWED_COMMANDS)

\* the first whitespace-separated word of a command string, lower-cased
FirstWord(c) == Lower(SplitWords(c)[1])

\* the command string has a first word and it is not in the allow-list
FirstWordNotAllowed(c) == SplitWords(c) # <<>> /\ FirstWord(c) \notin AllowList

\* the built-in commands execute_command handles before the allow-list check
IsBuiltinCommand(c) ==
    \/ StartsWith(Lower(c), s_config)
    \/ Lower(c) = s_history
    \/ Lower(c) = s_clear_history

\* C1 (as stated): a command whose first word is not allow-listed is always
\* answered with the not-allowed rejection, and subprocess.run is not called.
C1_Original ==
    (exec_count > 0 /\ FirstWordNotAllowed(command))
        => (result.tag = "not_allowed" /\ hook_calls = <<>>)

\* C1 (amended): for a command whose first word is not allow-listed
\* subprocess.run is never called, whatever was executed before, and the
\* value returned is the not-allowed rejection naming that word unless the
\* command is one of the built-ins (config..., history, clear history).
C1_NotAllowedNeverRuns ==
    (exec_count > 0 /\ FirstWordNotAllowed(command))
        => /\ hook_calls = <<>>
           /\ ~IsBuiltinCommand(command)
                => result = Ret("not_allowed", "", FirstWord(command), 0)

C1_Witness ==
    /\ exec_count = 2
    /\ Len(command_history) = 2
    /\ Len(command_history[1]) > 0
    /\ IsAllowed(FirstWord(command_history[1]))
    /\ command = in_rm_rf
    /\ result.tag = "not_allowed"
    /\ hook_calls = <<>>

\* C2: an input classified Execute with an allow-listed command is handed by
\* chat() to execute_command, then to process_command_output, then
\* displayed; it is not sent to the chat API and does not end in an error.
C2_ExecuteIsRun ==
    (pc = "done" /\ intent.kind = "execute" /\ intent.command.val \in AllowList)
        => /\ Before(events, "execute_command", "process_command_output")
           /\ Before(events, "process_command_output", "print:output")
           /\ ~Occurs(events, "chat_api")
           /\ ~Occurs(events, "print:error_processing_input")

\* the argument list C3 describes for a command string
ExpectedArgs(c, sys_platform) ==
    LET parts == SplitWords(c)
        keyword == Lower(parts[1])
    IN  IF sys_platform = "win32" /\ keyword \in shell_builtins
        THEN <<get_command_path(keyword, sys_platform), s_slash_c, keyword>> \o Tail(parts)
        ELSE <<get_command_path(keyword, sys_platform)>> \o Tail(parts)

\* C3: every call of subprocess.run gets a discrete argument list with
\* shell disabled: on Windows, for a shell built-in, the shell path, '/c',
\* the keyword, then the user's arguments; otherwise the resolved binary
\* followed by the user's arguments.
C3_ArgumentList ==
    \A i \in 1..Len(hook_calls) :
        /\ hook_calls[i].shell = FALSE
        /\ hook_calls[i].args = ExpectedArgs(command, platform)

\* C4: an input that contains a web-search phrase in any letter casing is
\* classified web_search, whatever else it contains.
C4_WebSearchWins ==
    (pc = "classified" /\ AnyPatternIn(patterns_web_search, Lower(user_input)))
        => intent.kind = "web_search"

C4_Witness ==
    /\ pc = "classified"
    /\ user_input = in_ping_look_up
    /\ intent.kind = "web_search"

\* the keyword an input starts with and the text that trails it
LeadingKeywords(s) == {k \in AllowList : StartsWith(s, k)}
Trailing(s, k) == Tail_from(s, Len(k))
OptionalText(t) == IF t = <<>> THEN None ELSE Some(t)

\* C5 (as stated): an input made of an allow-listed keyword k followed by any
\* text t is classified Execute with command k and argument t trimmed, or
\* None when the trailing text is empty.
C5_Original ==
    pc = "classified" =>
        \A k \in LeadingKeywords(user_input) :
            intent = Intent("execute", Some(k), OptionalText(Strip(Trailing(user_input, k))))

\* no rule that precedes the direct invocation check applies to the input
NoEarlierRule(ui) ==
    /\ ~AnyPatternIn(patterns_web_search, ui)
    /\ ~AnyPatternIn(patterns_help, ui)
    /\ ~AnyPatternIn(patterns_search, ui)
    /\ \A i \in 1..Len(command_patterns) :
          ~CommandMatches(command_patterns[i], ui, ToSet(SplitWords(ui)))

\* C5 (amended): an input made of an allow-listed keyword k followed by text
\* t, whose lower-cased form contains no web-search, help or search phrase
\* and matches no command trigger phrase (exactly or by word overlap), is
\* classified Execute with command k and argument the lower-cased t
\* trimmed, or None when that is empty.
C5_DirectInvocation ==
    (pc = "classified" /\ NoEarlierRule(Strip(Lower(user_input)))) =>
        \A k \in LeadingKeywords(user_input) :
            intent = Intent("execute", Some(k),
                            OptionalText(Strip(Lower(Trailing(user_input, k)))))

C5_Witness ==
    /\ pc = "classified"
    /\ user_input = in_echo_hi
    /\ intent = Intent("execute", Some(kw_echo), Some(s_hi))

\* C6: "what is my ip" is classified Execute, ipconfig, no argument.
C6_WhatIsMyIp ==
    (pc = "classified" /\ user_input = in_what_is_my_ip)
        => intent = Intent("execute", Some(kw_ipconfig), None)

AfterFirst(s, p) == Tail_from(s, Find(s, p) + Len(p) - 1)

\* C8: the argument of a web_search intent is the part of the lower-cased
\* input that follows the first matched web-search phrase (first in list
\* order), trimmed; "search for rust ownership" gives "rust ownership".
C8_WebSearchArgument ==
    (pc = "classified" /\ intent.kind = "web_search") =>
        LET ui == Strip(Lower(user_input))
        IN  /\ intent.args =
                 Some(Strip(AfterFirst(ui, FirstPatternIn(patterns_web_search, ui))))
            /\ user_input = in_search_for_rust => intent.args = Some(s_rust_ownership)

\* some call of subprocess.run made by the last execute_command timed out
SomeCallTimedOut ==
    \E i \in 1..Len(hook_calls) : hook_calls[i].outcome.kind = "TimeoutExpired"

\* C9 (as stated): when the process invocation times out, execute_command
\* returns the Timeout outcome, which carries no stdout or stderr content.
C9_Original ==
    (exec_count > 0 /\ SomeCallTimedOut)
        => (result.tag = "timeout" /\ result.text = "")

\* C9 (amended): when the last process invocation execute_command makes
\* times out (the retries being exhausted), it returns the Timeout outcome
\* with the configured number of seconds and none of the command's stdout
\* or stderr content.
C9_TimeoutOutcome ==
    (exec_count > 0 /\ hook_calls # <<>>
        /\ hook_calls[Len(hook_calls)].outcome.kind = "TimeoutExpired")
        => result = Ret("timeout", "", <<>>, config.api_timeout)

C9_Witness ==
    /\ exec_count > 0
    /\ config = default_config
    /\ Len(hook_calls) = 3
    /\ \A i \in 1..3 : hook_calls[i].outcome = raised_timeout
    /\ result.tag = "timeout"

\* C10: with the default configuration, when subprocess.run raises on its
\* first two calls and completes on the third, execute_command returns the
\* output of the third call, the hook was called exactly three times and
\* the waits between the attempts were 1 then 2.
C10_RetryThenSuccess ==
    (exec_count > 0 /\ config = default_config /\ Len(hook_behaviour) = 3
        /\ hook_behaviour[1].kind # "completed"
        /\ hook_behaviour[2].kind # "completed"
        /\ hook_behaviour[3].kind = "completed")
        => /\ result.tag = "output"
           /\ result.text = (IF hook_behaviour[3].stdout # ""
                             THEN hook_behaviour[3].stdout
                             ELSE hook_behaviour[3].stderr)
           /\ Len(hook_calls) = 3
           /\ sleeps = <<1, 2>>

C10_Witness ==
    /\ exec_count > 0
    /\ config = default_config
    /\ hook_behaviour = <<raised_oserror, raised_timeout, completed_ok>>
    /\ Len(hook_calls) = 3
    /\ result = Ret("output", "out", <<>>, 0)

\* C14: chat() called with the empty string makes no call to the chat API.
C14_EmptyInputNoApiCall ==
    (pc = "done" /\ user_input = <<>>) => ~Occurs(events, "chat_api")

in_how_do_i_use == <<"h","o","w"," ","d","o"," ","i"," ","u","s","e"," ">>
in_ping_find_command == <<"p","i","n","g","f","i","n","d"," ","c","o","m","m","a","n","d">>
in_find_command_test == <<"f","i","n","d"," ","c","o","m","m","a","n","d"," ","t","e","s","t"," ","c","o","n","n","e","c","t","i","o","n">>
s_test_connection == <<"t","e","s","t"," ","c","o","n","n","e","c","t","i","o","n">>

\* C19: an input that contains a help phrase, no web-search phrase and no
\* allow-listed keyword is classified Help with no command.
C19_GeneralHelp ==
    LET ui == Strip(Lower(user_input))
    IN  (pc = "classified"
            /\ AnyPatternIn(patterns_help, ui)
            /\ ~AnyPatternIn(patterns_web_search, ui)
            /\ \A k \in AllowList : ~Contains(ui, k))
        => intent = Intent("help", None, None)

\* s with every occurrence of a phrase dropped in one left-to-right pass
RECURSIVE WithoutPhrases(_, _)
WithoutPhrases(s, phrases) ==
    IF s = <<>> THEN <<>>
    ELSE LET here == {i \in 1..Len(phrases) : StartsWith(s, phrases[i])}
         IN  IF here # {}
             THEN WithoutPhrases(
                      Tail_from(s, Len(phrases[CHOOSE i \in here : \A j \in here : i <= j])),
                      phrases)
             ELSE <<Head(s)>> \o WithoutPhrases(Tail(s), phrases)

\* C20: an input that contains a generic-search phrase and neither a
\* web-search phrase nor a help phrase is classified Search, with no command
\* and with argument the input without its search phrases, trimmed; this
\* holds also when the input contains a command trigger phrase or starts
\* with an allow-listed keyword.
C20_SearchBeforeCommands ==
    LET ui == Strip(Lower(user_input))
    IN  (pc = "classified"
            /\ AnyPatternIn(patterns_search, ui)
            /\ ~AnyPatternIn(patterns_web_search, ui)
            /\ ~AnyPatternIn(patterns_help, ui))
        => intent = Intent("search", None, Some(Strip(WithoutPhrases(ui, patterns_search))))

C20_Witness ==
    /\ pc = "classified"
    /\ user_input = in_find_command_test
    /\ AnyPatternIn(patterns_ping, Strip(Lower(user_input)))
    /\ intent = Intent("search", None, Some(s_test_connection))

in_ipconfig == <<"i","p","c","o","n","f","i","g">>

\* the command reaches the privilege check and its keyword requires privilege
RequiresPrivilege(c) ==
    /\ SplitWords(c) # <<>>
    /\ ~IsBuiltinCommand(c)
    /\ FirstWord(c) \in {kw_netstat, kw_systeminfo, kw_ipconfig}

\* the elevation attempt of the last call did not succeed
ElevationFailed == platform # "win32" \/ shell_behaviour \in {"refused", "raises"}

\* C15: for netstat, systeminfo and ipconfig, when the agent is not elevated,
\* execute_command requests elevation, and when the request fails it returns
\* the insufficient-privilege message without calling subprocess.run; a
\* command that requires no privilege, or an elevated agent, is never
\* stopped by the privilege check.
C15_PrivilegeCheck ==
    exec_count > 0 =>
        /\ (RequiresPrivilege(command) /\ ~is_admin) =>
              /\ admin_request # "not_called"
              /\ ElevationFailed =>
                    /\ result = Ret("needs_admin", "", FirstWord(command), 0)
                    /\ hook_calls = <<>>
        /\ (~RequiresPrivilege(command) \/ is_admin) =>
              /\ admin_request = "not_called"
              /\ result.tag \notin {"needs_admin", "SystemExit"}

C15_Witness ==
    /\ exec_count > 0
    /\ command = in_ipconfig
    /\ ~is_admin
    /\ platform = "win32"
    /\ shell_behaviour = "refused"
    /\ admin_request = "False"
    /\ result = Ret("needs_admin", "", kw_ipconfig, 0)
    /\ hook_calls = <<>>

\* C16: when the first call of subprocess.run completes with a nonzero exit
\* code, it is the only call (no retry, no wait) and execute_command returns
\* the captured output (stdout, or stderr when stdout is empty) as a normal
\* result.
C16_NonzeroExitNotRetried ==
    (exec_count > 0 /\ hook_behaviour # <<>>
        /\ hook_behaviour[1].kind = "completed" /\ hook_behaviour[1].returncode # 0)
        => /\ Len(hook_calls) = 1
           /\ sleeps = <<>>
           /\ result = Ret("output",
                           IF hook_behaviour[1].stdout # "" THEN hook_behaviour[1].stdout
                           ELSE hook_behaviour[1].stderr,
                           <<>>, 0)

C16_Witness ==
    /\ exec_count > 0
    /\ config = default_config
    /\ hook_behaviour # <<>>
    /\ hook_behaviour[1] = completed_nonzero
    /\ Len(hook_calls) = 1
    /\ result = Ret("output", "err", <<>>, 0)

\* subprocess.run raises on every attempt of the last call
EveryAttemptRaises ==
    /\ hook_behaviour # <<>>
    /\ \A i \in 1..Len(hook_behaviour) : hook_behaviour[i].kind # "completed"

\* C17 (as stated): when subprocess.run raises on every attempt,
\* execute_command calls it exactly retry_attempts times and returns the
\* process-failure outcome with the message of the last exception.
C17_Original ==
    (exec_count > 0 /\ EveryAttemptRaises)
        => /\ Len(hook_calls) = config.retry_attempts
           /\ result = Ret("error", hook_behaviour[Len(hook_behaviour)].msg, <<>>, 0)

\* C17 (amended): when subprocess.run raises on every attempt,
\* execute_command calls it exactly retry_attempts times, waits between the
\* attempts only, and returns a value: the process-failure outcome with the
\* message of the last exception, or the Timeout outcome when the last
\* exception is TimeoutExpired.
C17_RetriesExhausted ==
    (exec_count > 0 /\ EveryAttemptRaises)
        => LET last == hook_behaviour[Len(hook_behaviour)]
           IN  /\ Len(hook_calls) = config.retry_attempts
               /\ Len(sleeps) = config.retry_attempts - 1
               /\ last.kind # "TimeoutExpired" => result = Ret("error", last.msg, <<>>, 0)
               /\ last.kind = "TimeoutExpired"
                     => result = Ret("timeout", "", <<>>, config.api_timeout)

C17_Witness ==
    /\ exec_count > 0
    /\ config = default_config
    /\ hook_behaviour = <<raised_timeout, raised_timeout, raised_oserror>>
    /\ Len(hook_calls) = 3
    /\ result = Ret("error", "boom", <<>>, 0)

C12_ReplSurvives ==
    lines_read > 0 =>
        \/ pc = "prompt"
        \/ pc = "ended" /\ Lower(user_input) = s_slash_exit


\* a Python str: a sequence of characters
IsText(v) == \A i \in 1..Len(v) : v[i] \in STRING

\* the outputs on which the parsing of a command raises: for ipconfig, a
\* line that names an address without a colon after an adapter line; for
\* ping and tracert, a text of two or more lines whose first line is blank
RECURSIVE AddressWithoutColon(_, _)
AddressWithoutColon(lines, after_adapter) ==
    IF lines = <<>> THEN FALSE
    ELSE LET line == Head(lines)
         IN  IF Contains(line, s_Ethernet_adapter) \/ Contains(line, s_Wireless)
             THEN AddressWithoutColon(Tail(lines), Strip(Split(line, s_colon)[1]) # <<>>)
             ELSE \/ /\ after_adapter
                     /\ Contains(line, s_IPv4_Address) \/ Contains(line, s_Physical_Address)
                     /\ ~Contains(line, s_colon)
                  \/ AddressWithoutColon(Tail(lines), after_adapter)

ParsingFails(cmd, output) ==
    \/ cmd = kw_ipconfig /\ AddressWithoutColon(splitlines(output), FALSE)
    \/ /\ cmd \in {kw_ping, kw_tracert}
       /\ Len(splitlines(output)) >= 2
       /\ Strip(splitlines(output)[1]) = <<>>

\* C13: for every command keyword and every output text,
\* process_command_output returns a string and never raises; when the
\* parsing of the command fails it returns the raw output unchanged.
C13_NeverRaises ==
    pc = "processed" =>
        /\ processed.raised = "none"
        /\ IsText(processed.value)
        /\ ParsingFails(output_keyword, tool_output) => processed.value = tool_output

C13_Witness ==
    /\ pc = "processed"
    /\ output_keyword = kw_ipconfig
    /\ ParsingFails(output_keyword, tool_output)
    /\ processed = Returned(tool_output)

in_system_info == <<"s","y","s","t","e","m"," ","i","n","f","o">>

\* the input gets as far as the per-command check: no web-search phrase, no
\* help phrase together with an allow-listed keyword, no search phrase
ReachesCommandCheck(ui) ==
    /\ ~AnyPatternIn(patterns_web_search, ui)
    /\ ~(AnyPatternIn(patterns_help, ui) /\ \E k \in AllowList : Contains(ui, k))
    /\ ~AnyPatternIn(patterns_search, ui)

\* the i-th registered command answers the input, by a trigger phrase found
\* in it or by word overlap
Answers(i, ui) == CommandMatches(command_patterns[i], ui, ToSet(SplitWords(ui)))

\* C21: in the per-command check the first command in registration order
\* with an exact or fuzzy match is returned; a trigger phrase registered for
\* two commands ("system info": systeminfo and ver) resolves to the
\* earlier-registered one.
C21_RegistrationOrder ==
    LET ui == Strip(Lower(user_input))
    IN  (pc = "classified" /\ ReachesCommandCheck(ui)) =>
            \A i \in 1..Len(command_patterns) :
                (Answers(i, ui) /\ \A j \in 1..(i - 1) : ~Answers(j, ui)) =>
                    /\ intent.kind = "execute"
                    /\ intent.command = Some(command_patterns[i].cmd)

C21_Witness ==
    /\ pc = "classified"
    /\ user_input = in_system_info
    /\ \E i, j \in 1..Len(command_patterns) :
          /\ command_patterns[i].cmd = kw_systeminfo
          /\ command_patterns[j].cmd = kw_ver
          /\ i < j
          /\ Contains(user_input, in_system_info)
          /\ Answers(i, user_input) /\ Answers(j, user_input)
    /\ intent = Intent("execute", Some(kw_systeminfo), None)

in_connection == <<"c","o","n","n","e","c","t","i","o","n">>
in_who_am == <<"w","h","o"," ","a","m">>

\* the commands that have trigger phrases
CommandEntries ==
    {i \in 1..Len(command_patterns) :
        command_patterns[i].cmd \notin {key_help, key_search, key_web_search}}

\* the whitespace-separated words of the input
InputWords(ui) == ToSet(SplitWords(ui))

\* distinct words of a phrase, and those of them that are words of the input
PhraseWordTable ==
    [i \in 1..Len(command_patterns) |->
        [p \in 1..Len(command_patterns[i].patterns) |->
            {SplitWords(command_patterns[i].patterns[p])[k] :
                k \in 1..Len(SplitWords(command_patterns[i].patterns[p]))}]]
PhraseWords(i, p) == PhraseWordTable[i][p]
SharedWords(i, p, words) == {w \in PhraseWords(i, p) : w \in words}

\* shared / distinct > 0.5, for phrase p of command i
OverHalf(i, p, words) ==
    Cardinality(SharedWords(i, p, words)) * 10 > 5 * Cardinality(PhraseWords(i, p))

\* shared / distinct = 0.5
ExactlyHalf(i, p, words) ==
    Cardinality(SharedWords(i, p, words)) * 10 = 5 * Cardinality(PhraseWords(i, p))

\* the position of a command in the registration, and of a phrase in its list
EntryOf(cmd) == CHOOSE i \in 1..Len(command_patterns) : command_patterns[i].cmd = cmd
PhraseAt(i, phrase) ==
    CHOOSE p \in 1..Len(command_patterns[i].patterns) : command_patterns[i].patterns[p] = phrase

\* the commands with a trigger phrase whose overlap with the input is above 0.5
OverHalfCommands(words) ==
    {i \in CommandEntries :
        \E p \in 1..Len(command_patterns[i].patterns) : OverHalf(i, p, words)}

\* no trigger phrase of any command occurs in the input
NoExactPhrase(ui) ==
    \A i \in CommandEntries : ~AnyPatternIn(command_patterns[i].patterns, ui)

\* the input starts with an allow-listed keyword
StartsWithKeyword(ui) == \E k \in AllowList : StartsWith(ui, k)

\* C22: the fuzzy fallback matches a command exactly when some trigger
\* phrase of it has more than half of its distinct words among the words of
\* the input; a ratio of exactly 0.5 is not a match.
C22_FuzzyThreshold ==
    LET ui == Strip(Lower(user_input))
        over == OverHalfCommands(InputWords(ui))
    IN  (pc = "classified" /\ ReachesCommandCheck(ui) /\ NoExactPhrase(ui)) =>
            IF over # {}
            THEN /\ intent.kind = "execute"
                 /\ intent.command =
                        Some(command_patterns[CHOOSE i \in over : \A j \in over : i <= j].cmd)
            ELSE IF StartsWithKeyword(ui)
            THEN intent.kind = "execute" /\ StartsWith(ui, intent.command.val)
            ELSE intent = Intent("none", None, None)

\* two of the three words of "who am i" are words of the input "who am"
C22_Witness ==
    /\ pc = "classified"
    /\ user_input = in_who_am
    /\ NoExactPhrase(user_input)
    /\ OverHalf(EntryOf(kw_whoami), PhraseAt(EntryOf(kw_whoami), <<"w","h","o"," ","a","m"," ","i">>),
                InputWords(user_input))
    /\ intent = Intent("execute", Some(kw_whoami), None)

\* the commands with a two-word trigger phrase that shares exactly one word
\* with the input
HalfOfTwoWords(words) ==
    {i \in CommandEntries :
        \E p \in 1..Len(command_patterns[i].patterns) :
            /\ Cardinality(PhraseWords(i, p)) = 2
            /\ Cardinality(SharedWords(i, p, words)) = 1}

\* C23 (as stated): an input that shares exactly one word with a two-word
\* trigger phrase is matched to that phrase's command and classified
\* Execute.
C23_Original ==
    LET ui == Strip(Lower(user_input))
    IN  (pc = "classified" /\ ReachesCommandCheck(ui)
            /\ HalfOfTwoWords(InputWords(ui)) # {})
        => intent.kind = "execute"

\* C23 (amended): an overlap of exactly 50% is not a match: an input in
\* which no trigger phrase occurs, whose overlap with every trigger phrase is
\* at most one half and which does not start with an allow-listed keyword is
\* classified None, also when it shares one word with a two-word phrase.
C23_HalfIsNoMatch ==
    LET ui == Strip(Lower(user_input))
    IN  (pc = "classified" /\ ReachesCommandCheck(ui) /\ NoExactPhrase(ui)
            /\ HalfOfTwoWords(InputWords(ui)) # {}
            /\ OverHalfCommands(InputWords(ui)) = {}
            /\ ~StartsWithKeyword(ui))
        => intent = Intent("none", None, None)

C23_Witness ==
    /\ pc = "classified"
    /\ user_input = in_connection
    /\ \E i \in HalfOfTwoWords(InputWords(user_input)) :
          command_patterns[i].cmd = kw_ping
    /\ ExactlyHalf(EntryOf(kw_ping), PhraseAt(EntryOf(kw_ping), s_test_connection),
                   InputWords(user_input))
    /\ intent.kind = "none"

in_can_i_reach_hi == <<"c","a","n"," ","i"," ","r","e","a","c","h"," ","H","i">>

\* the text after the last occurrence of a phrase
AfterLast(s, p) ==
    LET occ == {i \in 1..(Len(s) - Len(p) + 1) : SubSeq(s, i, i + Len(p) - 1) = p}
    IN  Tail_from(s, (CHOOSE i \in occ : \A j \in occ : i >= j) + Len(p) - 1)

\* the positions of the tokens "test" and "check" that have a next token
FollowedTokens(tokens) ==
    {i \in 1..(Len(tokens) - 1) : tokens[i] = s_test \/ tokens[i] = s_check}

\* the commands that answer the input, and the one registered first
Answering(ui) == {i \in CommandEntries : Answers(i, ui)}
Selected(hits) == command_patterns[CHOOSE i \in hits : \A j \in hits : i <= j].cmd

Ipv4Lines(output) ==
    {i \in 1..Len(splitlines(output)) :
        /\ Contains(splitlines(output)[i], s_IPv4_Address)
        /\ Contains(splitlines(output)[i], s_colon)
        /\ Strip(SplitOnce(splitlines(output)[i], s_colon)[2]) # <<>>}
AddressOf(line) == Strip(SplitOnce(line, s_colon)[2])

\* C25: for ipconfig, whenever the raw output has an "IPv4 Address" line with
\* an address, the normalized output contains that address, also when the
\* output is that line alone.
C25_Ipv4Extracted ==
    (pc = "processed" /\ output_keyword = kw_ipconfig) =>
        \A i \in Ipv4Lines(tool_output) :
            Contains(processed.value, AddressOf(splitlines(tool_output)[i]))

\* the command reads "config set <key> <value>"
IsConfigSet(c) ==
    /\ Len(SplitWords(c)) = 4
    /\ SplitWords(c)[1] = s_config
    /\ SplitWords(c)[2] = s_set

\* the key names a setting of the configuration
KnownKey(cfg, key) == \E k \in DOMAIN cfg : ConfigKeys[k] = key

\* C26: executing "config set <key> <value>" with a key of the
\* configuration sets it to the given value (here a value that differs from
\* the current one, so the configuration changes) and writes the
\* configuration file; with an unknown key nothing changes.
C26_ConfigSet ==
    [][(exec_count' = exec_count + 1 /\ IsConfigSet(command')) =>
          IF KnownKey(config, SplitWords(command')[3])
          THEN config' # config /\ config_file' = config'
          ELSE config' = config /\ config_file' = config_file]_vars

\* C27: every Intent the classifier returns is well formed: the kind is one
\* of web_search, help, search, execute, none; a command is present only
\* when the kind is execute or help; an execute intent names a command of
\* the allow-list.
C27_IntentWellFormed ==
    pc = "classified" =>
        /\ intent.kind \in {"web_search", "help", "search", "execute", "none"}
        /\ ~intent.command.none => intent.kind \in {"execute", "help"}
        /\ intent.kind = "execute" =>
              ~intent.command.none /\ intent.command.val \in AllowList

C27_Witness ==
    /\ pc = "classified"
    /\ intent.kind = "help"
    /\ intent.command = Some(kw_ping)
    /\ intent.args = None

\* subprocess.run times out on every attempt of the last call
EveryAttemptTimesOut ==
    /\ hook_behaviour # <<>>
    /\ \A i \in 1..Len(hook_behaviour) : hook_behaviour[i] = raised_timeout

\* the waits between n attempts: retry_delay * 2 ** attempt
BackoffWaits(n) == [i \in 1..(n - 1) |-> config.retry_delay * 2 ^ (i - 1)]

\* C28: a timeout goes through the retry wrapper like any other exception:
\* when every attempt times out, subprocess.run is called retry_attempts
\* times with the backoff waits in between, and only then the Timeout
\* outcome is returned.
C28_TimeoutRetried ==
    (exec_count > 0 /\ EveryAttemptTimesOut)
        => /\ Len(hook_calls) = config.retry_attempts
           /\ \A i \in 1..Len(hook_calls) : hook_calls[i].outcome = raised_timeout
           /\ sleeps = BackoffWaits(config.retry_attempts)
           /\ result = Ret("timeout", "", <<>>, config.api_timeout)

C28_Witness ==
    /\ exec_count > 0
    /\ config = default_config
    /\ hook_behaviour = <<raised_timeout, raised_timeout, raised_timeout>>
    /\ Len(hook_calls) = 3
    /\ sleeps = <<1, 2>>
    /\ result = Ret("timeout", "", <<>>, 30)

\* C29: the classification of an input does not depend on the order in
\* which this process iterates over the set ALLOWED_COMMANDS.
C29_OrderIndependent ==
    pc = "classified" =>
        \A order \in SetOrders : intent = detect_command_intent(user_input, order)

====
